---- MODULE Spec2Model ----
(***************************************************************************)
(* Model of the comparison / exclusion engine of Discrepancies             *)
(* (internal/compare/compare.go, internal/compare/archive.go).             *)
(*                                                                         *)
(* Strings are sequences of one-character strings, so that splitting,      *)
(* quoting, replacing and pattern matching are computed as the Go code     *)
(* computes them.                                                          *)
(***************************************************************************)
EXTENDS Integers, Sequences, FiniteSets, TLC

VARIABLES
    excludeMatcher, \* Comparer.excludeMatcher: [nil, rules, compiledRules]
    qPath,          \* argument path of a ShouldExclude call
    qIsDir,         \* argument isDir of that call
    qResult,        \* value the call returned
    qDone,          \* TRUE once the call has returned
    zipEntries,     \* the archive at zipPath: its entries [Name, IsDir, Content], in order
    workTree,       \* the files under workDir: relative path -> content
    zipReader,      \* Comparer.zipReader: "nil", "open" or "closed"
    pc,             \* where Compare is: "start", "zipLoop", "workLoop", "done", "failed"
    zipFiles,       \* Compare's zipFiles: relative path -> index of the entry in zipEntries
    workFiles,      \* Compare's workFiles: relative path -> path of the file
    zipTodo,        \* keys of zipFiles the first loop has not visited yet
    workTodo,       \* keys of workFiles the second loop has not visited yet
    result,         \* Compare's result: [Items, TotalFiles, Added, Modified, Deleted]
    ret,            \* what Compare returned: "none" (running), "ok" (result, nil), "err" (nil, error)
    totalFiles,     \* Compare's totalFiles
    processed,      \* Compare's processed
    progress,       \* the OnProgress calls so far: [current, total, path]
    hashErr,        \* relative path -> "zip" or "work": the hash computations that failed
    gPattern,       \* a glob pattern given to globToRegex
    gText,          \* the string its regular expression is matched against
    gResult,        \* what MatchString returned
    gDone,          \* TRUE once it has returned
    expItems,       \* ExportDiffs' argument items
    selectedItems,  \* ExportDiffs' selectedItems
    expI,           \* iterations of ExportDiffs' copy loop that are over
    expPc,          \* where ExportDiffs is: "start", "loop", "copy", "done", "failed"
    expRet,         \* what ExportDiffs returned: "none" (running), "ok" (nil), "err"
    expProgress,    \* the onProgress calls so far: [Current, Total, Path]
    outFiles,       \* the files under outputDir: path -> [Src, Complete]
    copied,         \* the copyFile calls that returned nil: [Src, Dest], in order
    copyErr,        \* position in selectedItems of the copyFile call that failed, or 0
    defaultExcludeRules, \* the array of the package variable defaultExcludeRules
    cfgRules,       \* m.config.ExcludeRules: [shared, len, own]
    cfgLast,        \* the Manager method called last, "none" after NewManager
    cfgOps,         \* the Manager methods called so far
    cfgCall,        \* the last call: the list before it, its index argument, whether it
                    \* saved, the error it returned
    dOld,           \* CompareTexts' argument oldText
    dNew,           \* CompareTexts' argument newText
    dDiffs,         \* CompareTexts' diffs: the spans [Type, Text] of the diff
    dResult,        \* the TextDiff it returned: [OldContent, NewContent, Lines]
    dDone,          \* TRUE once it has returned
    appOp,          \* the App method running: "diff" (GetTextDiff), "root" (GetZipRootFolder)
    appArchive,     \* the archive at its zipPath: entries [Name, IsDir, Content]
    appWorkTree,    \* the files under its workDir: path -> content
    appRelPath,     \* GetTextDiff's relPath
    appPc,          \* where the method is: "start", "opened", "done"
    appReader,      \* its zipReader: "nil", "open" or "closed"
    appRet,         \* what it returned: "none" (running), "ok", "err"
    appErr,         \* why it failed: "none", "nottext", "open", "notfound", "zipread", "workread"
    appDiff,        \* the TextDiff GetTextDiff returned
    appRoot,        \* the string GetZipRootFolder returned
    concIn,         \* concurrent comparisons: the archive, the working directory, the
                    \* rules, and the Comparer each invocation runs on
    comparers,      \* each Comparer's field zipReader: a reader, or 0 for nil
    readers,        \* each ZipReader: its state and the Close calls it got
    calls           \* each invocation of Compare: its position and its locals

matchVars == <<qPath, qIsDir, qResult, qDone>>

compareVars == <<zipEntries, workTree, zipReader, pc, zipFiles, workFiles, zipTodo,
                 workTodo, result, ret, totalFiles, processed, progress, hashErr>>

globVars == <<gPattern, gText, gResult, gDone>>

\* The variables of the operations that are neither a matcher query nor a
\* comparison.
exportVars == <<expItems, selectedItems, expI, expPc, expRet, expProgress, outFiles,
                copied, copyErr>>

configVars == <<defaultExcludeRules, cfgRules, cfgLast, cfgOps, cfgCall>>

textVars == <<dOld, dNew, dDiffs, dResult, dDone>>

\* The variables of the text preview and of the operations of App.
appVars == <<appOp, appArchive, appWorkTree, appRelPath, appPc, appReader, appRet, appErr,
             appDiff, appRoot>>

concVars == <<concIn, comparers, readers, calls>>

moreVars == <<textVars, appVars, concVars>>

auxVars == <<globVars, exportVars, configVars, moreVars>>

vars == <<excludeMatcher, matchVars, compareVars, auxVars>>

(***************************************************************************)
(* Bounds of the model.                                                    *)
(***************************************************************************)
MaxPathLen == 5      \* longest path string given to ShouldExclude
MaxPatLen == 2       \* longest glob pattern of a drawn rule
MaxZipEntries == 2   \* most entries of the archive
MaxWorkFiles == 2    \* most files of the working directory
NumContents == 3     \* distinct file contents
DigestSpace == 2     \* distinct digests (fewer than contents: digests collide)
MaxRules == 3        \* longest rule list of a matcher built from several rules
MaxListPathLen == 3  \* longest path given to such a matcher
MaxExportItems == 3  \* most items given to ExportDiffs
MaxConfigOps == 3    \* most Manager methods called on one Manager
MaxDiffTextLen == 3  \* longest text given to CompareTexts
MaxGlobLen == 3      \* longest glob pattern given to globToRegex alone
MaxTextLen == 4      \* longest string matched against it

(***************************************************************************)
(* Strings.                                                                *)
(***************************************************************************)
Slash == "/"
Backslash == "\\"

\* All strings over alphabet A of length 0..n.
StringsUpTo(A, n) == UNION {[1..k -> A] : k \in 0..n}

Last(s) == s[Len(s)]

Front(s) == SubSeq(s, 1, Len(s) - 1)

HasPrefix(s, p) == Len(s) >= Len(p) /\ SubSeq(s, 1, Len(p)) = p

HasSuffix(s, p) == Len(s) >= Len(p) /\ SubSeq(s, Len(s) - Len(p) + 1, Len(s)) = p

\* strings.Split(s, sep) for a one-character separator: always at least one
\* piece, empty pieces kept.
RECURSIVE Split(_, _)
Split(s, sep) ==
    IF \A i \in 1..Len(s) : s[i] # sep
    THEN <<s>>
    ELSE LET i == CHOOSE k \in 1..Len(s) :
                      s[k] = sep /\ \A j \in 1..(k - 1) : s[j] # sep
         IN <<SubSeq(s, 1, i - 1)>> \o Split(SubSeq(s, i + 1, Len(s)), sep)

\* strings.ReplaceAll(s, old, new) for non-empty old: leftmost,
\* non-overlapping occurrences.
RECURSIVE ReplaceAll(_, _, _)
ReplaceAll(s, old, new) ==
    IF s = <<>> THEN <<>>
    ELSE IF HasPrefix(s, old)
         THEN new \o ReplaceAll(SubSeq(s, Len(old) + 1, Len(s)), old, new)
         ELSE <<Head(s)>> \o ReplaceAll(Tail(s), old, new)

\* The path separator of the build; filepath.ToSlash replaces it by "/" and is
\* the identity where it already is "/".
Separator == Slash

ToSlash(path) ==
    IF Separator = Slash THEN path
    ELSE [i \in 1..Len(path) |-> IF path[i] = Separator THEN Slash ELSE path[i]]

\* filepath.Base: "." for the empty path, trailing separators dropped, then
\* the part after the last separator; "/" for a path of separators only.
RECURSIVE StripTrailingSlashes(_)
StripTrailingSlashes(s) ==
    IF s # <<>> /\ Last(s) = Separator THEN StripTrailingSlashes(Front(s)) ELSE s

Base(path) ==
    IF path = <<>> THEN <<".">>
    ELSE LET p == StripTrailingSlashes(path)
         IN IF p = <<>> THEN <<Separator>> ELSE Last(Split(p, Separator))

(***************************************************************************)
(* regexp: the syntax subset that globToRegex produces, plus literals,     *)
(* ".", postfix "*", a leading "^" and a trailing "$".  A compiled         *)
(* expression is [nil, bol, toks]; NoRegex is the nil *regexp.Regexp.      *)
(***************************************************************************)
NoRegex == [nil |-> TRUE, bol |-> FALSE, toks |-> <<>>]

\* regexp.QuoteMeta's special bytes.
MetaChars == {Backslash, ".", "+", "*", "?", "(", ")", "|", "[", "]", "{", "}", "^", "$"}

RECURSIVE QuoteMeta(_)
QuoteMeta(s) ==
    IF s = <<>> THEN <<>>
    ELSE (IF Head(s) \in MetaChars THEN <<Backslash, Head(s)>> ELSE <<Head(s)>>)
         \o QuoteMeta(Tail(s))

Tok(kind, c, star) == [k |-> kind, c |-> c, star |-> star]

\* The atoms of a pattern body, [ok |-> TRUE, toks |-> ...], or ok = FALSE on a
\* compile error: a repetition with nothing to repeat, a doubled repetition, a
\* trailing backslash, an unclosed group or class.  A "$" that ends the
\* pattern is the end-of-text anchor.
RECURSIVE ParseAtoms(_)
ParseAtoms(s) ==
    IF s = <<>> THEN [ok |-> TRUE, toks |-> <<>>]
    ELSE IF s = <<"$">> THEN [ok |-> TRUE, toks |-> <<Tok("eol", "", FALSE)>>]
    ELSE
      LET c == Head(s)
          isClass == HasPrefix(s, <<"[", "^", "/", "]">>)
          isEsc == c = Backslash /\ Len(s) >= 2 /\ s[2] \in MetaChars
          isAny == c = "."
          isLit == c \notin MetaChars
          n == IF isClass THEN 4 ELSE IF isEsc THEN 2 ELSE 1
          starred == Len(s) > n /\ s[n + 1] = "*"
          doubled == starred /\ Len(s) > n + 1 /\ s[n + 2] \in {"*", "+", "?"}
          used == IF starred THEN n + 1 ELSE n
          atom == IF isClass THEN Tok("notslash", "", starred)
                  ELSE IF isEsc THEN Tok("lit", s[2], starred)
                  ELSE IF isAny THEN Tok("any", "", starred)
                  ELSE Tok("lit", c, starred)
      IN IF ~(isClass \/ isEsc \/ isAny \/ isLit) \/ doubled
         THEN [ok |-> FALSE, toks |-> <<>>]
         ELSE LET rest == ParseAtoms(SubSeq(s, used + 1, Len(s)))
              IN [ok |-> rest.ok, toks |-> IF rest.ok THEN <<atom>> \o rest.toks ELSE <<>>]

\* regexp.Compile: NoRegex when the expression does not compile.
Compile(expr) ==
    LET bol == expr # <<>> /\ Head(expr) = "^"
        parsed == ParseAtoms(IF bol THEN Tail(expr) ELSE expr)
    IN IF parsed.ok THEN [nil |-> FALSE, bol |-> bol, toks |-> parsed.toks]
       ELSE NoRegex

\* Whether one character is matched by an atom: "." matches every character
\* but a newline, [^/] every character but "/".
AtomMatches(t, ch) ==
    CASE t.k = "lit" -> ch = t.c
      [] t.k = "any" -> ch # "\n"
      [] t.k = "notslash" -> ch # Slash
      [] OTHER -> FALSE

\* Whether the atoms match a prefix of s (all of s when they end in "$").
RECURSIVE MatchHere(_, _)
MatchHere(toks, s) ==
    IF toks = <<>> THEN TRUE
    ELSE LET t == Head(toks)
         IN IF t.k = "eol" THEN s = <<>> /\ MatchHere(Tail(toks), s)
            ELSE IF t.star
                 THEN MatchHere(Tail(toks), s)
                      \/ (s # <<>> /\ AtomMatches(t, Head(s)) /\ MatchHere(toks, Tail(s)))
                 ELSE s # <<>> /\ AtomMatches(t, Head(s)) /\ MatchHere(Tail(toks), Tail(s))

\* (*regexp.Regexp).MatchString: an unanchored search.
MatchString(re, s) ==
    IF re.bol THEN MatchHere(re.toks, s)
    ELSE \E i \in 1..(Len(s) + 1) : MatchHere(re.toks, SubSeq(s, i, Len(s)))

(***************************************************************************)
(* ExcludeMatcher (compare.go).                                            *)
(***************************************************************************)
\* models.ExcludeRule; the Comment field carries no behaviour.
ExcludeRule(pattern, type, isDir, enabled) ==
    [Pattern |-> pattern, Type |-> type, IsDir |-> isDir, Enabled |-> enabled]

globToRegex(pattern) ==
    LET quoted == QuoteMeta(pattern)
        r1 == ReplaceAll(quoted, <<Backslash, "*", Backslash, "*">>, <<".", "*">>)
        r2 == ReplaceAll(r1, <<Backslash, "*">>, <<"[", "^", "/", "]", "*">>)
        r3 == ReplaceAll(r2, <<Backslash, "?">>, <<".">>)
    IN <<"^">> \o r3 \o <<"$">>

\* One compiledRule: the rule, its regex (NoRegex when it does not compile)
\* and, for a glob, the pattern.
compileRule(rule) ==
    IF rule.Type = "regex"
    THEN [rule |-> rule, regex |-> Compile(rule.Pattern), pattern |-> <<>>]
    ELSE [rule |-> rule, regex |-> Compile(globToRegex(rule.Pattern)),
          pattern |-> rule.Pattern]

RECURSIVE compileAll(_)
compileAll(rules) ==
    IF rules = <<>> THEN <<>>
    ELSE <<compileRule(Head(rules))>> \o compileAll(Tail(rules))

\* ExcludeMatcher.compile: the enabled rules, compiled, in order.
RECURSIVE compile(_)
compile(rules) ==
    IF rules = <<>> THEN <<>>
    ELSE IF ~Head(rules).Enabled THEN compile(Tail(rules))
    ELSE <<compileRule(Head(rules))>> \o compile(Tail(rules))

\* The nil *ExcludeMatcher of a Comparer whose SetExcludeRules was not called.
NilMatcher == [nil |-> TRUE, rules |-> <<>>, compiledRules |-> <<>>]

NewExcludeMatcher(rules) ==
    [nil |-> FALSE, rules |-> rules, compiledRules |-> compile(rules)]

pathContainsDirFirstOnly(path, cr) ==
    LET parts == Split(path, Slash)
    IN Len(parts) > 1 /\ MatchString(cr.regex, parts[1])

pathContainsDirOrFile(path, cr) ==
    LET parts == Split(path, Slash)
    IN \E i \in 1..Len(parts) : MatchString(cr.regex, parts[i])

pathContainsDir(path, cr) ==
    LET parts == Split(path, Slash)
    IN \E i \in 1..(Len(parts) - 1) : MatchString(cr.regex, parts[i])

\* What one iteration of ShouldExclude's loop decides for rule cr: TRUE is
\* "return true", FALSE is "go on to the next rule".
ruleExcludesAnySegment(cr, path, isDir) ==
    IF cr.regex.nil THEN FALSE
    ELSE IF cr.rule.IsDir /\ ~isDir THEN pathContainsDir(path, cr)
    ELSE LET parts == Split(path, Slash)
         IN \/ \E i \in 1..Len(parts) : MatchString(cr.regex, parts[i])
            \/ MatchString(cr.regex, path)

ruleExcludes(cr, path, isDir) ==
    IF cr.regex.nil THEN FALSE
    ELSE IF cr.rule.IsDir /\ ~isDir THEN pathContainsDir(path, cr)
    ELSE IF cr.rule.IsDir
         THEN LET parts == Split(path, Slash)
              IN \E i \in 1..Len(parts) : MatchString(cr.regex, parts[i])
         ELSE LET fileName == Base(path)
              IN MatchString(cr.regex, fileName) \/ MatchString(cr.regex, path)

ShouldExcludeFirstOnly(crs, path, isDir) ==
    IF crs = <<>> THEN FALSE
    ELSE ruleExcludes(Head(crs), path, isDir)

RECURSIVE ShouldExcludeLoop(_, _, _)
ShouldExcludeLoop(crs, path, isDir) ==
    IF crs = <<>> THEN FALSE
    ELSE IF ruleExcludes(Head(crs), path, isDir) THEN TRUE
    ELSE ShouldExcludeLoop(Tail(crs), path, isDir)

\* ExcludeMatcher.ShouldExclude on matcher m.
ShouldExclude(m, path, isDir) == ShouldExcludeLoop(m.compiledRules, ToSlash(path), isDir)

\* filepath.Ext: the suffix of the last path element that starts at its last
\* dot, or the empty string.
Ext(path) ==
    LET dots == {i \in 1..Len(path) :
                    path[i] = "." /\ \A j \in i..Len(path) : path[j] # Separator}
    IN IF dots = {} THEN <<>>
       ELSE LET i == CHOOSE k \in dots : \A j \in dots : j <= k
            IN SubSeq(path, i, Len(path))

DefaultExcludedParts ==
    { <<"o", "b", "j">>, <<"b", "i", "n">>, <<".", "i", "d", "e", "a">>, <<".", "v", "s">>,
      <<"M", "y", " ", "P", "r", "o", "j", "e", "c", "t">>,
      <<"S", "e", "r", "v", "i", "c", "e", " ", "R", "e", "f", "e", "r", "e", "n", "c", "e", "s">>,
      <<"P", "r", "o", "p", "e", "r", "t", "i", "e", "s">> }

DefaultExcludedExts ==
    { <<".", "v", "b", "p", "r", "o", "j">>, <<".", "c", "s", "p", "r", "o", "j">> }

defaultShouldExclude(path0) ==
    LET path == ToSlash(path0)
        pathParts == Split(path, Slash)
    IN \/ \E i \in 1..Len(pathParts) : pathParts[i] \in DefaultExcludedParts
       \/ Ext(path) \in DefaultExcludedExts
       \/ HasSuffix(path, <<".", "v", "b", "p", "r", "o", "j", ".", "u", "s", "e", "r">>)

\* Comparer.shouldExclude.
shouldExclude(m, path, isDir) ==
    IF ~m.nil THEN ShouldExclude(m, path, isDir) ELSE defaultShouldExclude(path)

(***************************************************************************)
(* ZipReader (archive.go) and the directory walk.                          *)
(***************************************************************************)
\* An archive entry: zip.File's Name, FileInfo().IsDir() and content.
ZipEntry(name, isDir, content) == [Name |-> name, IsDir |-> isDir, Content |-> content]

TrimPrefix(s, p) == IF HasPrefix(s, p) THEN SubSeq(s, Len(p) + 1, Len(s)) ELSE s

GetRootFolder(entries) ==
    IF Len(entries) = 0 THEN <<>>
    ELSE Split(TrimPrefix(entries[1].Name, <<Slash>>), Slash)[1]

ListFilesKeyStripAlways(f, rootFolder) ==
    LET parts == Split(f.Name, Slash)
        relPath == IF rootFolder # <<>> /\ Len(parts) > 1
                   THEN SubSeq(f.Name, Len(parts[1]) + 2, Len(f.Name))
                   ELSE f.Name
    IN ToSlash(relPath)

\* The key ListFiles gives entry f, the empty string when it gives none.
ListFilesKey(f, rootFolder) ==
    LET relPath == IF rootFolder # <<>> /\ HasPrefix(f.Name, rootFolder \o <<Slash>>)
                   THEN TrimPrefix(f.Name, rootFolder \o <<Slash>>)
                   ELSE f.Name
    IN ToSlash(relPath)

\* ZipReader.ListFiles: relative path -> entry (its index); of two file
\* entries with one key the later one stays.
ListFiles(entries) ==
    LET rootFolder == GetRootFolder(entries)
        kept == {i \in 1..Len(entries) :
                    ~entries[i].IsDir /\ ListFilesKey(entries[i], rootFolder) # <<>>}
        keys == {ListFilesKey(entries[i], rootFolder) : i \in kept}
    IN [k \in keys |->
          CHOOSE i \in kept :
              /\ ListFilesKey(entries[i], rootFolder) = k
              /\ \A j \in kept : ListFilesKey(entries[j], rootFolder) = k => j <= i]

CloseLeavesOpen(reader) == reader

\* ZipReader.Close, as the deferred call runs it on an open reader.
Close(reader) == "closed"

\* The working directory Compare is given.
WorkDir == <<Slash, "w">>

\* filepath.Join(root, rel) for a clean root and a clean relative path.
Join(root, rel) == root \o <<Separator>> \o rel

\* filepath.Rel(root, path) for a path under root.
Rel(root, path) == SubSeq(path, Len(root) + 2, Len(path))

\* getAllFilesAndDirs(root).files over the file system tree: relative path ->
\* path, for every file of the tree.
getAllFiles(root, tree) ==
    LET rels == {ToSlash(Rel(root, path)) : path \in DOMAIN tree}
    IN [r \in rels |-> CHOOSE path \in DOMAIN tree : ToSlash(Rel(root, path)) = r]

\* crypto/md5 over a content: a digest from a space smaller than the
\* contents', so that distinct contents can share a digest.
md5Sum(content) == content % DigestSpace

(***************************************************************************)
(* Inputs of the matcher specification.                                    *)
(***************************************************************************)
PathAlphabet == {"a", "b", Slash}

GlobAlphabet == {"a", Slash, "*", "?"}

\* The relative paths the listings give the matcher: not empty (ListFiles and
\* ListDirs drop the empty key) and not ending in a slash (a file entry's name
\* does not; ListDirs trims it; the walk yields clean paths).
QueryPaths ==
    {p \in StringsUpTo(PathAlphabet, MaxPathLen) : p # <<>> /\ Last(p) # Slash}

GlobPatterns == StringsUpTo(GlobAlphabet, MaxPatLen)

\* Regular expressions: a literal (found anywhere in the path), anchored
\* forms, a repetition, and two expressions that do not compile.
RegexPatterns ==
    { <<"a">>, <<"^", "a", "$">>, <<"b", ".", "*", "a">>, <<"(">>, <<"*", "a">> }

RuleUniverse ==
    { ExcludeRule(p, "glob", d, e) : p \in GlobPatterns, d \in BOOLEAN, e \in BOOLEAN }
    \cup { ExcludeRule(p, "regex", d, e) : p \in RegexPatterns, d \in BOOLEAN, e \in BOOLEAN }

MatcherRuleLists == {<<>>} \cup { <<r>> : r \in RuleUniverse }

(***************************************************************************)
(* Specification of the matcher: a matcher is built from a rule list and   *)
(* then queried.                                                           *)
(***************************************************************************)
(***************************************************************************)
(* config.Manager (config.go): the exclusion rules of the configuration.   *)
(* A slice is modelled with its backing array: the package variable        *)
(* defaultExcludeRules is a slice over an array of its own, and            *)
(* m.config.ExcludeRules either shares that array (shared, with its        *)
(* length) or has an array of its own (own).                               *)
(***************************************************************************)
\* The composite literal defaultExcludeRules is initialised with.
DefaultRulesLiteral ==
    << ExcludeRule(<<"o", "b", "j">>,
                   "glob", TRUE, TRUE),
       ExcludeRule(<<"b", "i", "n">>,
                   "glob", TRUE, TRUE),
       ExcludeRule(<<".", "i", "d", "e", "a">>,
                   "glob", TRUE, TRUE),
       ExcludeRule(<<".", "v", "s">>,
                   "glob", TRUE, TRUE),
       ExcludeRule(<<".", "v", "s", "c", "o", "d", "e">>,
                   "glob", TRUE, TRUE),
       ExcludeRule(<<"n", "o", "d", "e", "_", "m", "o", "d", "u", "l", "e", "s">>,
                   "glob", TRUE, TRUE),
       ExcludeRule(<<"M", "y", " ", "P", "r", "o", "j", "e", "c", "t">>,
                   "glob", TRUE, TRUE),
       ExcludeRule(<<"S", "e", "r", "v", "i", "c", "e", " ", "R", "e", "f", "e", "r", "e", "n", "c", "e", "s">>,
                   "glob", TRUE, TRUE),
       ExcludeRule(<<"P", "r", "o", "p", "e", "r", "t", "i", "e", "s">>,
                   "glob", TRUE, TRUE),
       ExcludeRule(<<"*", ".", "v", "b", "p", "r", "o", "j">>,
                   "glob", FALSE, TRUE),
       ExcludeRule(<<"*", ".", "v", "b", "p", "r", "o", "j", ".", "u", "s", "e", "r">>,
                   "glob", FALSE, TRUE),
       ExcludeRule(<<"*", ".", "c", "s", "p", "r", "o", "j">>,
                   "glob", FALSE, TRUE),
       ExcludeRule(<<"*", ".", "c", "s", "p", "r", "o", "j", ".", "u", "s", "e", "r">>,
                   "glob", FALSE, TRUE),
       ExcludeRule(<<"*", ".", "s", "u", "o">>,
                   "glob", FALSE, TRUE),
       ExcludeRule(<<"*", ".", "u", "s", "e", "r">>,
                   "glob", FALSE, TRUE),
       ExcludeRule(<<".", "D", "S", "_", "S", "t", "o", "r", "e">>,
                   "glob", FALSE, TRUE),
       ExcludeRule(<<"T", "h", "u", "m", "b", "s", ".", "d", "b">>,
                   "glob", FALSE, TRUE) >>

\* m.config.ExcludeRules as a slice of the array of defaultExcludeRules.
SharedSlice(n) == [shared |-> TRUE, len |-> n, own |-> <<>>]

\* m.config.ExcludeRules as a slice with an array of its own.
OwnSlice(rules) == [shared |-> FALSE, len |-> Len(rules), own |-> rules]

\* The elements of slice sl, arr being the array of defaultExcludeRules.
Elements(sl, arr) == IF sl.shared THEN SubSeq(arr, 1, sl.len) ELSE sl.own

\* Manager.GetExcludeRules.
GetExcludeRules(sl, arr) == IF sl.len = 0 THEN arr ELSE Elements(sl, arr)

\* No Manager is in use.
\* No method of the Manager was called.
NoCall == [Prev |-> <<>>, Index |-> 0, Saved |-> FALSE, Err |-> "nil"]

ConfigIdle ==
    /\ defaultExcludeRules = DefaultRulesLiteral
    /\ cfgRules = SharedSlice(0)
    /\ cfgLast = "none"
    /\ cfgOps = 0
    /\ cfgCall = NoCall

\* No glob is being matched.
GlobIdle ==
    /\ gPattern = <<>>
    /\ gText = <<>>
    /\ gResult = FALSE
    /\ gDone = TRUE

\* No export is running.
ExportIdle ==
    /\ expItems = <<>>
    /\ selectedItems = <<>>
    /\ expI = 0
    /\ expPc = "idle"
    /\ expRet = "none"
    /\ expProgress = <<>>
    /\ outFiles = <<>>
    /\ copied = <<>>
    /\ copyErr = 0

\* No TextDiff, and no text being compared.
NoTextDiff == [OldContent |-> <<>>, NewContent |-> <<>>, Lines |-> <<>>]

TextIdle ==
    /\ dOld = <<>>
    /\ dNew = <<>>
    /\ dDiffs = <<>>
    /\ dResult = NoTextDiff
    /\ dDone = TRUE

\* No method of App is running.
AppIdle ==
    /\ appOp = "idle"
    /\ appArchive = <<>>
    /\ appWorkTree = <<>>
    /\ appRelPath = <<>>
    /\ appPc = "idle"
    /\ appReader = "nil"
    /\ appRet = "none"
    /\ appErr = "none"
    /\ appDiff = NoTextDiff
    /\ appRoot = <<>>

\* No concurrent comparison is running.
ConcIdle ==
    /\ concIn = <<>>
    /\ comparers = <<>>
    /\ readers = <<>>
    /\ calls = <<>>

MoreIdle == TextIdle /\ AppIdle /\ ConcIdle

AuxIdle == GlobIdle /\ ExportIdle /\ ConfigIdle /\ MoreIdle

\* No matcher query is pending.
MatchIdle ==
    /\ qPath = <<>>
    /\ qIsDir = FALSE
    /\ qResult = FALSE
    /\ qDone = TRUE

\* No comparison is running.
CompareIdle ==
    /\ zipEntries = <<>>
    /\ workTree = <<>>
    /\ zipReader = "nil"
    /\ pc = "idle"
    /\ zipFiles = <<>>
    /\ workFiles = <<>>
    /\ zipTodo = {}
    /\ workTodo = {}
    /\ result = [Items |-> <<>>, TotalFiles |-> 0, Added |-> 0, Modified |-> 0, Deleted |-> 0]
    /\ ret = "none"
    /\ totalFiles = 0
    /\ processed = 0
    /\ progress = <<>>
    /\ hashErr = <<>>

MatchInit ==
    /\ \E rules \in MatcherRuleLists : excludeMatcher = NewExcludeMatcher(rules)
    /\ qPath \in QueryPaths
    /\ qIsDir \in BOOLEAN
    /\ qResult = FALSE
    /\ qDone = FALSE
    /\ CompareIdle
    /\ AuxIdle

\* The call ShouldExclude(qPath, qIsDir).
Query ==
    /\ ~qDone
    /\ qResult' = ShouldExclude(excludeMatcher, qPath, qIsDir)
    /\ qDone' = TRUE
    /\ UNCHANGED <<excludeMatcher, qPath, qIsDir, compareVars, auxVars>>

MatchNext == Query

MatchSpec == MatchInit /\ [][MatchNext]_vars

(***************************************************************************)
(* Comparer.Compare (compare.go), one loop iteration per step.  The two    *)
(* loops range over Go maps: each key is visited once, in any order.       *)
(***************************************************************************)
DiffItem(relPath, type, sourcePath) ==
    [RelPath |-> relPath, Type |-> type, Selected |-> TRUE, SourcePath |-> sourcePath]

EmptyResult ==
    [Items |-> <<>>, TotalFiles |-> 0, Added |-> 0, Modified |-> 0, Deleted |-> 0]

\* The loops' exclusion test of a key (a file path: isDir is false).
skipPathAsDir(m, relPath) == shouldExclude(m, relPath, TRUE)

skipPathBaseName(m, relPath) == shouldExclude(m, Base(relPath), FALSE)

skipPath(m, relPath) == shouldExclude(m, relPath, FALSE)

\* The item of a key absent from workFiles.
deletedItem(relPath) == DiffItem(relPath, "deleted", <<>>)

\* The item of a key whose two hashes differ.
modifiedItemNoSource(relPath, workFilePath) == DiffItem(relPath, "modified", <<>>)

modifiedItem(relPath, workFilePath) == DiffItem(relPath, "modified", workFilePath)

\* The item of a key of workFiles absent from zipFiles.
addedItemRelSource(relPath, workFilePath) == DiffItem(relPath, "added", relPath)

addedItem(relPath, workFilePath) == DiffItem(relPath, "added", workFilePath)

\* !bytes.Equal(zipHash, workHash).
hashesDifferAlways(zipHash, workHash) == TRUE

hashesDiffer(zipHash, workHash) == zipHash # workHash

\* The second loop's lookup of the key in zipFiles.
existsInZip(zf, normalizedPath) == normalizedPath \in DOMAIN zf

\* result after the append and the count of one emitted item.
EmitNoCount(res, item) == [res EXCEPT !.Items = Append(@, item)]

EmitPrepend(res, item) ==
    [res EXCEPT !.Items = <<item>> \o @,
                !.Added = IF item.Type = "added" THEN @ + 1 ELSE @,
                !.Modified = IF item.Type = "modified" THEN @ + 1 ELSE @,
                !.Deleted = IF item.Type = "deleted" THEN @ + 1 ELSE @]

Emit(res, item) ==
    [res EXCEPT !.Items = Append(@, item),
                !.Added = IF item.Type = "added" THEN @ + 1 ELSE @,
                !.Modified = IF item.Type = "modified" THEN @ + 1 ELSE @,
                !.Deleted = IF item.Type = "deleted" THEN @ + 1 ELSE @]

\* result after a hash computation of the key failed: the loop continues.
onHashErrorModified(res, relPath, workFilePath) ==
    Emit(res, modifiedItem(relPath, workFilePath))

onHashError(res, relPath, workFilePath) == res

ProgressEventFromZero(current, total, path) ==
    [Current |-> current - 1, Total |-> total, Path |-> path]

ProgressEvent(current, total, path) == [Current |-> current, Total |-> total, Path |-> path]

\* NewZipReader fails: Compare returns (nil, error).
CompareOpenFails ==
    /\ pc = "start"
    /\ pc' = "failed"
    /\ ret' = "err"
    /\ UNCHANGED <<excludeMatcher, matchVars, zipEntries, workTree, zipReader, zipFiles,
                   workFiles, zipTodo, workTodo, result, totalFiles, processed, progress,
                   hashErr, auxVars>>

CompareWalkFailsAfterCallback ==
    /\ pc = "start"
    /\ zipFiles' = ListFiles(zipEntries)
    /\ zipReader' = Close("open")
    /\ progress' = <<ProgressEvent(1, Cardinality(DOMAIN zipFiles'), <<>>)>>
    /\ pc' = "failed"
    /\ ret' = "err"
    /\ UNCHANGED <<excludeMatcher, matchVars, zipEntries, workTree, workFiles, zipTodo,
                   workTodo, result, totalFiles, processed, hashErr, auxVars>>

\* The archive opens and is listed, the walk of the working directory fails:
\* Compare returns (nil, error) and the deferred Close runs.
CompareWalkFails ==
    /\ pc = "start"
    /\ zipFiles' = ListFiles(zipEntries)
    /\ zipReader' = Close("open")
    /\ pc' = "failed"
    /\ ret' = "err"
    /\ UNCHANGED <<excludeMatcher, matchVars, zipEntries, workTree, workFiles, zipTodo,
                   workTodo, result, totalFiles, processed, progress, hashErr, auxVars>>

\* The archive opens, both listings are built, the first loop is entered.
CompareBegin ==
    /\ pc = "start"
    /\ zipReader' = "open"
    /\ zipFiles' = ListFiles(zipEntries)
    /\ workFiles' = getAllFiles(WorkDir, workTree)
    /\ result' = EmptyResult
    /\ totalFiles' = Cardinality(DOMAIN zipFiles') + Cardinality(DOMAIN workFiles')
    /\ processed' = 0
    /\ zipTodo' = DOMAIN zipFiles'
    /\ pc' = "zipLoop"
    /\ UNCHANGED <<excludeMatcher, matchVars, zipEntries, workTree, workTodo, ret,
                   progress, hashErr, auxVars>>

\* One iteration of the loop over zipFiles, for key relPath.  Either hash
\* computation can fail (the entry or the file cannot be opened or read).
ZipIter(relPath) ==
    /\ pc = "zipLoop"
    /\ relPath \in zipTodo
    /\ zipTodo' = zipTodo \ {relPath}
    /\ IF skipPath(excludeMatcher, relPath)
       THEN UNCHANGED <<processed, progress, result, hashErr>>
       ELSE /\ processed' = processed + 1
            /\ progress' = Append(progress, ProgressEvent(processed + 1, totalFiles, relPath))
            /\ IF relPath \notin DOMAIN workFiles
               THEN /\ result' = Emit(result, deletedItem(relPath))
                    /\ UNCHANGED hashErr
               ELSE LET workFilePath == workFiles[relPath]
                        zipHash == md5Sum(zipEntries[zipFiles[relPath]].Content)
                        workHash == md5Sum(workTree[workFilePath])
                    IN \/ /\ hashErr' = (relPath :> "zip") @@ hashErr
                          /\ result' = onHashError(result, relPath, workFilePath)
                       \/ /\ hashErr' = (relPath :> "work") @@ hashErr
                          /\ result' = onHashError(result, relPath, workFilePath)
                       \/ /\ UNCHANGED hashErr
                          /\ result' = IF hashesDiffer(zipHash, workHash)
                                       THEN Emit(result, modifiedItem(relPath, workFilePath))
                                       ELSE result
    /\ UNCHANGED <<excludeMatcher, matchVars, zipEntries, workTree, zipReader, pc, zipFiles,
                   workFiles, workTodo, ret, totalFiles, auxVars>>

\* The first loop ends, the second is entered.
ZipLoopEnd ==
    /\ pc = "zipLoop"
    /\ zipTodo = {}
    /\ workTodo' = DOMAIN workFiles
    /\ pc' = "workLoop"
    /\ UNCHANGED <<excludeMatcher, matchVars, zipEntries, workTree, zipReader, zipFiles,
                   workFiles, zipTodo, result, ret, totalFiles, processed, progress, hashErr, auxVars>>

\* One iteration of the loop over workFiles, for key relPath.
WorkIter(relPath) ==
    /\ pc = "workLoop"
    /\ relPath \in workTodo
    /\ workTodo' = workTodo \ {relPath}
    /\ IF skipPath(excludeMatcher, relPath)
       THEN UNCHANGED <<processed, progress, result>>
       ELSE /\ processed' = processed + 1
            /\ progress' = Append(progress, ProgressEvent(processed + 1, totalFiles, relPath))
            /\ LET normalizedPath == ToSlash(relPath)
               IN result' = IF ~existsInZip(zipFiles, normalizedPath)
                            THEN Emit(result, addedItem(relPath, workFiles[relPath]))
                            ELSE result
    /\ UNCHANGED <<excludeMatcher, matchVars, zipEntries, workTree, zipReader, pc, zipFiles,
                   workFiles, zipTodo, ret, totalFiles, hashErr, auxVars>>

\* The second loop ends: TotalFiles is set, Compare returns (result, nil) and
\* the deferred Close runs.
CompareReturn ==
    /\ pc = "workLoop"
    /\ workTodo = {}
    /\ result' = [result EXCEPT !.TotalFiles = Len(result.Items)]
    /\ ret' = "ok"
    /\ zipReader' = Close(zipReader)
    /\ pc' = "done"
    /\ UNCHANGED <<excludeMatcher, matchVars, zipEntries, workTree, zipFiles, workFiles,
                   zipTodo, workTodo, totalFiles, processed, progress, hashErr, auxVars>>

(***************************************************************************)
(* Inputs of the comparison: an archive, a working directory, the rules    *)
(* set on the Comparer.                                                    *)
(***************************************************************************)
Contents == 1..NumContents

ZipFileNames == { <<"r", Slash, "a">>, <<"a", Slash, "b">> }

ZipDirNames == { <<"r", Slash>> }

ZipEntryUniverse ==
    { ZipEntry(n, FALSE, c) : n \in ZipFileNames, c \in Contents }
    \cup { ZipEntry(n, TRUE, 0) : n \in ZipDirNames }

Archives == UNION {[1..k -> ZipEntryUniverse] : k \in 0..MaxZipEntries}

WorkRelPaths == { <<"a">>, <<"b">>, <<"a", Slash, "b">> }

\* No file of the set is a directory on the way to another one.
IsTree(paths) == \A p \in paths, q \in paths : ~HasPrefix(q, p \o <<Slash>>)

WorkTrees ==
    UNION { [{Join(WorkDir, r) : r \in rels} -> Contents] :
              rels \in {x \in SUBSET WorkRelPaths : Cardinality(x) <= MaxWorkFiles /\ IsTree(x)} }

\* The matcher of the Comparer: none set, or one built from a rule list.
CompareMatchers ==
    { NilMatcher,
      NewExcludeMatcher(<<ExcludeRule(<<"a">>, "glob", TRUE, TRUE)>>),
      NewExcludeMatcher(<<ExcludeRule(<<"b">>, "glob", FALSE, TRUE)>>) }

\* A Comparer just made by NewComparer, before Compare is called.
CompareStart ==
    /\ zipReader = "nil"
    /\ pc = "start"
    /\ zipFiles = <<>>
    /\ workFiles = <<>>
    /\ zipTodo = {}
    /\ workTodo = {}
    /\ result = EmptyResult
    /\ ret = "none"
    /\ totalFiles = 0
    /\ processed = 0
    /\ progress = <<>>
    /\ hashErr = <<>>

Init ==
    /\ excludeMatcher \in CompareMatchers
    /\ zipEntries \in Archives
    /\ workTree \in WorkTrees
    /\ CompareStart
    /\ MatchIdle
    /\ AuxIdle

Next ==
    \/ CompareOpenFails
    \/ CompareWalkFails
    \/ CompareBegin
    \/ \E relPath \in zipTodo : ZipIter(relPath)
    \/ ZipLoopEnd
    \/ \E relPath \in workTodo : WorkIter(relPath)
    \/ CompareReturn

Spec == Init /\ [][Next]_vars

(***************************************************************************)
(* Properties of Comparer.Compare, checked under Spec.                     *)
(***************************************************************************)
\* Compare has returned (result, nil).
Returned == pc = "done" /\ ret = "ok"

Items == result.Items

\* The positions of the items whose RelPath is p.
ItemsAt(p) == {i \in 1..Len(Items) : Items[i].RelPath = p}

Excluded(p) == shouldExclude(excludeMatcher, p, FALSE)

\* The content of the archive entry listed under key p, and of the
\* working-directory file listed under key p.
ZipContent(p) == zipEntries[zipFiles[p]].Content

WorkContent(p) == workTree[workFiles[p]]

InBoth == DOMAIN zipFiles \cap DOMAIN workFiles

\* Exactly one item has RelPath p, and it has this type and source path.
OneItem(p, type, sourcePath) ==
    \E i \in 1..Len(Items) :
        /\ ItemsAt(p) = {i}
        /\ Items[i].Type = type
        /\ Items[i].SourcePath = sourcePath

CountOf(type) == Cardinality({i \in 1..Len(Items) : Items[i].Type = type})

\* C1: when Compare has returned, every key of the archive listing that is no
\* key of the working-directory listing and is not excluded has exactly one
\* item, of type "deleted".
C1_ArchiveOnlyDeleted ==
    Returned =>
        \A p \in DOMAIN zipFiles :
            (p \notin DOMAIN workFiles /\ ~Excluded(p)) =>
                \E i \in 1..Len(Items) : ItemsAt(p) = {i} /\ Items[i].Type = "deleted"

C1_Witness ==
    /\ Returned
    /\ ~excludeMatcher.nil
    /\ \E p \in DOMAIN zipFiles :
          p \notin DOMAIN workFiles /\ ~Excluded(p) /\ OneItem(p, "deleted", <<>>)

\* C2: when Compare has returned, every key of the working-directory listing
\* that is no key of the archive listing and is not excluded has exactly one
\* item, of type "added", whose SourcePath is the path of the file in the
\* working directory.
C2_WorkOnlyAdded ==
    Returned =>
        \A p \in DOMAIN workFiles :
            (p \notin DOMAIN zipFiles /\ ~Excluded(p)) =>
                /\ OneItem(p, "added", Join(WorkDir, p))
                /\ Join(WorkDir, p) \in DOMAIN workTree

C2_Witness ==
    /\ Returned
    /\ \E p \in DOMAIN workFiles :
          p \notin DOMAIN zipFiles /\ ~Excluded(p) /\ OneItem(p, "added", Join(WorkDir, p))

\* C3 as stated: when Compare has returned, every key of both listings that is
\* not excluded, whose two contents differ and whose two hashes were computed
\* has exactly one item, of type "modified", with the working-directory
\* file's path as SourcePath.
C3_Original ==
    Returned =>
        \A p \in InBoth :
            (~Excluded(p) /\ p \notin DOMAIN hashErr /\ ZipContent(p) # WorkContent(p)) =>
                OneItem(p, "modified", Join(WorkDir, p))

\* C3 as amended: when Compare has returned, every key of both listings that
\* is not excluded, whose two contents have different MD5 digests and whose
\* two hashes were computed has exactly one item, of type "modified", with
\* the working-directory file's path as SourcePath.
C3_ModifiedWhenDigestsDiffer ==
    Returned =>
        \A p \in InBoth :
            (/\ ~Excluded(p)
             /\ p \notin DOMAIN hashErr
             /\ md5Sum(ZipContent(p)) # md5Sum(WorkContent(p))) =>
                OneItem(p, "modified", Join(WorkDir, p))

C3_Witness ==
    /\ Returned
    /\ \E p \in InBoth :
          /\ ~Excluded(p)
          /\ p \notin DOMAIN hashErr
          /\ md5Sum(ZipContent(p)) # md5Sum(WorkContent(p))
          /\ OneItem(p, "modified", Join(WorkDir, p))

\* C4: a key of both listings with the same content on both sides never has an
\* item, in either loop; and when Compare has returned for two listings with
\* the same keys and the same content per key, Items is empty and Added,
\* Modified, Deleted and TotalFiles are 0.
SameTrees ==
    /\ DOMAIN zipFiles = DOMAIN workFiles
    /\ \A p \in InBoth : ZipContent(p) = WorkContent(p)

C4_IdenticalNoItem ==
    /\ \A p \in InBoth : ZipContent(p) = WorkContent(p) => ItemsAt(p) = {}
    /\ (Returned /\ SameTrees) =>
          /\ Items = <<>>
          /\ result.Added = 0 /\ result.Modified = 0
          /\ result.Deleted = 0 /\ result.TotalFiles = 0

C4_Witness ==
    /\ Returned
    /\ SameTrees
    /\ hashErr = <<>>
    /\ \E p \in InBoth : ~Excluded(p)
    /\ Items = <<>>

\* C5: no item has a RelPath that the comparer's exclusion predicate excludes.
C5_NoExcludedItem ==
    \A i \in 1..Len(Items) : ~Excluded(Items[i].RelPath)

C5_Witness ==
    /\ Returned
    /\ \E p \in DOMAIN zipFiles : p \notin DOMAIN workFiles /\ Excluded(p)
    /\ \E q \in DOMAIN workFiles : q \notin DOMAIN zipFiles /\ Excluded(q)
    /\ ItemsAt(<<"a">>) # {}

\* The type of the one item a key gets from its own two sides, "none" for no
\* item.
ExpectedKind(q) ==
    IF Excluded(q) THEN "none"
    ELSE IF q \notin DOMAIN workFiles THEN "deleted"
    ELSE IF q \notin DOMAIN zipFiles THEN "added"
    ELSE IF md5Sum(ZipContent(q)) # md5Sum(WorkContent(q)) THEN "modified"
    ELSE "none"

\* C6: a key one of whose hash computations failed gets no item, a failed hash
\* computation never makes Compare return an error, and when Compare has
\* returned every other key has the items its own two sides give it.
C6_HashFailureSkipsPair ==
    /\ DOMAIN hashErr # {} => (ret # "err" /\ pc # "failed")
    /\ \A p \in DOMAIN hashErr : ItemsAt(p) = {}
    /\ Returned =>
          \A q \in (DOMAIN zipFiles \cup DOMAIN workFiles) \ DOMAIN hashErr :
              IF ExpectedKind(q) = "none" THEN ItemsAt(q) = {}
              ELSE \E i \in 1..Len(Items) :
                      ItemsAt(q) = {i} /\ Items[i].Type = ExpectedKind(q)

C6_Witness ==
    /\ Returned
    /\ \E p \in DOMAIN hashErr :
          /\ md5Sum(ZipContent(p)) # md5Sum(WorkContent(p))
          /\ ItemsAt(p) = {}
          /\ \E q \in DOMAIN workFiles : q # p /\ ItemsAt(q) # {}

\* C7: in a returned result Added, Modified and Deleted are the numbers of
\* items of each type, and TotalFiles = len(Items) = Added + Modified + Deleted.
C7_CountsMatchItems ==
    Returned =>
        /\ result.Added = CountOf("added")
        /\ result.Modified = CountOf("modified")
        /\ result.Deleted = CountOf("deleted")
        /\ result.TotalFiles = Len(Items)
        /\ result.TotalFiles = result.Added + result.Modified + result.Deleted

C7_Witness ==
    /\ Returned
    /\ result.Added = 1 /\ result.Modified = 1 /\ result.Deleted = 1
    /\ result.TotalFiles = 3

\* C8: in Items every item of type "deleted" or "modified" comes before every
\* item of type "added".
C8_ArchiveItemsFirst ==
    \A i \in 1..Len(Items), j \in 1..Len(Items) :
        (Items[i].Type \in {"deleted", "modified"} /\ Items[j].Type = "added") => i < j

C8_Witness ==
    /\ Returned
    /\ CountOf("added") >= 1
    /\ CountOf("deleted") >= 1
    /\ CountOf("modified") >= 1

(***************************************************************************)
(* Properties of ExcludeMatcher.ShouldExclude, checked under MatchSpec.    *)
(***************************************************************************)
\* The segments of a path, by position: <<i, j>> bounds the segment
\* path[i..j] (empty when j = i - 1) between two slashes or path ends.
SegBounds(path) ==
    {b \in (1..(Len(path) + 1)) \X (0..Len(path)) :
        /\ b[2] >= b[1] - 1
        /\ (b[1] = 1 \/ path[b[1] - 1] = Slash)
        /\ (b[2] = Len(path) \/ path[b[2] + 1] = Slash)
        /\ \A k \in b[1]..b[2] : path[k] # Slash}

SegmentsOf(path) == {SubSeq(path, b[1], b[2]) : b \in SegBounds(path)}

\* The segments before the final one.
AncestorSegments(path) ==
    {SubSeq(path, b[1], b[2]) : b \in {c \in SegBounds(path) : c[2] < Len(path)}}

FinalSegment(path) ==
    LET b == CHOOSE c \in SegBounds(path) : c[2] = Len(path)
    IN SubSeq(path, b[1], b[2])

GlobMatches(pattern, s) == MatchString(Compile(globToRegex(pattern)), s)

CompiledRules == excludeMatcher.compiledRules

\* C9: with an enabled directory-scoped glob rule P in the matcher,
\* ShouldExclude returns true for a directory path one of whose segments
\* matches P, and for a file path one of whose ancestor segments matches P,
\* however deep the segment is.
C9_DirRulePropagates ==
    qDone =>
        \A k \in 1..Len(CompiledRules) :
            LET rule == CompiledRules[k].rule
            IN (rule.IsDir /\ rule.Type = "glob") =>
                  /\ (qIsDir /\ \E seg \in SegmentsOf(qPath) : GlobMatches(rule.Pattern, seg))
                        => qResult
                  /\ (~qIsDir /\ \E seg \in AncestorSegments(qPath) :
                                     GlobMatches(rule.Pattern, seg))
                        => qResult

\* The file b/a/b under the rule "a": the matching directory is the second
\* segment.
C9_Witness ==
    /\ qDone
    /\ qResult
    /\ ~qIsDir
    /\ qPath = <<"b", Slash, "a", Slash, "b">>
    /\ Len(CompiledRules) = 1
    /\ CompiledRules[1].rule = ExcludeRule(<<"a">>, "glob", TRUE, TRUE)

\* C10: a matcher of one enabled rule that is not directory-scoped excludes a
\* path exactly when the rule's pattern compiled and matches the path's final
\* segment or the whole path; a match of an ancestor segment alone does not
\* exclude.
C10_FileRuleMatchesNameOrPath ==
    (qDone /\ Len(CompiledRules) = 1 /\ ~CompiledRules[1].rule.IsDir) =>
        LET re == CompiledRules[1].regex
        IN qResult <=>
              /\ ~re.nil
              /\ (MatchString(re, FinalSegment(qPath)) \/ MatchString(re, qPath))

\* The path a/b under the glob rule "a": only the ancestor segment matches.
C10_Witness ==
    /\ qDone
    /\ ~qResult
    /\ qPath = <<"a", Slash, "b">>
    /\ Len(CompiledRules) = 1
    /\ CompiledRules[1].rule = ExcludeRule(<<"a">>, "glob", FALSE, TRUE)

(***************************************************************************)
(* Specification of the glob translation: one pattern is translated by     *)
(* globToRegex, compiled, and matched against one string.                  *)
(***************************************************************************)
GlobTestAlphabet == {"a", ".", Slash, "*", "?"}

TextAlphabet == {"a", ".", Slash, "\n"}

GlobTestPatterns == StringsUpTo(GlobTestAlphabet, MaxGlobLen)

GlobTexts == StringsUpTo(TextAlphabet, MaxTextLen)

GlobInit ==
    /\ gPattern \in GlobTestPatterns
    /\ gText \in GlobTexts
    /\ gResult = FALSE
    /\ gDone = FALSE
    /\ excludeMatcher = NilMatcher
    /\ MatchIdle
    /\ CompareIdle
    /\ ExportIdle
    /\ ConfigIdle
    /\ MoreIdle

\* compile's glob branch followed by one MatchString call.
GlobMatch ==
    /\ ~gDone
    /\ gResult' = MatchString(Compile(globToRegex(gPattern)), gText)
    /\ gDone' = TRUE
    /\ UNCHANGED <<excludeMatcher, matchVars, compareVars, gPattern, gText, exportVars,
                   configVars, moreVars>>

GlobNext == GlobMatch

GlobSpec == GlobInit /\ [][GlobNext]_vars

\* The glob language as documented: the pattern is read left to right, "**"
\* stands for any run of characters, a "*" not part of a "**" for any run of
\* characters other than "/", "?" for exactly one character, and every other
\* character for itself; the whole string has to be used up.
RECURSIVE GlobAccepts(_, _)
GlobAccepts(pattern, s) ==
    IF pattern = <<>> THEN s = <<>>
    ELSE IF HasPrefix(pattern, <<"*", "*">>)
    THEN \E i \in 0..Len(s) : GlobAccepts(SubSeq(pattern, 3, Len(pattern)), SubSeq(s, i + 1, Len(s)))
    ELSE IF Head(pattern) = "*"
    THEN \E i \in 0..Len(s) :
            /\ \A j \in 1..i : s[j] # Slash
            /\ GlobAccepts(Tail(pattern), SubSeq(s, i + 1, Len(s)))
    ELSE IF Head(pattern) = "?"
    THEN s # <<>> /\ GlobAccepts(Tail(pattern), Tail(s))
    ELSE s # <<>> /\ Head(s) = Head(pattern) /\ GlobAccepts(Tail(pattern), Tail(s))

\* C11: the regular expression globToRegex makes from a glob pattern matches
\* exactly the strings the documented glob language accepts: anchored at both
\* ends, "**" any run including "/", "*" any run without "/", "?" exactly one
\* character, every other character only itself.
C11_GlobSemantics == gDone => (gResult = GlobAccepts(gPattern, gText))

\* The same, for the strings that hold no newline.
C11_GlobSemanticsNoNewline ==
    gDone /\ (\A i \in 1..Len(gText) : gText[i] # "\n")
        => (gResult = GlobAccepts(gPattern, gText))

(***************************************************************************)
(* Specification of a matcher built from a list of several rules.          *)
(***************************************************************************)
\* A directory rule, a file rule that is disabled, a regular expression
\* enabled and disabled, and a rule whose pattern does not compile.
ListRuleUniverse ==
    { ExcludeRule(<<"a">>, "glob", TRUE, TRUE),
      ExcludeRule(<<"a">>, "glob", FALSE, FALSE),
      ExcludeRule(<<"b">>, "regex", FALSE, TRUE),
      ExcludeRule(<<"b">>, "regex", FALSE, FALSE),
      ExcludeRule(<<"(">>, "regex", FALSE, TRUE) }

RuleLists == UNION {[1..k -> ListRuleUniverse] : k \in 0..MaxRules}

ListQueryPaths == {p \in QueryPaths : Len(p) <= MaxListPathLen}

RuleListInit ==
    /\ \E rules \in RuleLists : excludeMatcher = NewExcludeMatcher(rules)
    /\ qPath \in ListQueryPaths
    /\ qIsDir \in BOOLEAN
    /\ qResult = FALSE
    /\ qDone = FALSE
    /\ CompareIdle
    /\ AuxIdle

RuleListSpec == RuleListInit /\ [][MatchNext]_vars

\* The rule list the matcher was built from.
Rules == excludeMatcher.rules

\* The list without its k-th rule.
WithoutRule(rules, k) == SubSeq(rules, 1, k - 1) \o SubSeq(rules, k + 1, Len(rules))

\* A rule that is disabled or whose pattern does not compile.
Inert(rule) ==
    \/ ~rule.Enabled
    \/ Compile(IF rule.Type = "regex" THEN rule.Pattern ELSE globToRegex(rule.Pattern)) = NoRegex

\* What a matcher built from the list answers to the query of the state.
Answer(rules) == ShouldExclude(NewExcludeMatcher(rules), qPath, qIsDir)

\* C12: a rule that is disabled, or whose pattern does not compile, is inert:
\* the matcher built from a list answers every query as the matcher built
\* from the list without that rule does; and a matcher is always built.
C12_InertRuleIgnored ==
    qDone =>
        /\ ~excludeMatcher.nil
        /\ \A k \in 1..Len(Rules) :
               Inert(Rules[k]) => (qResult = Answer(WithoutRule(Rules, k)))

\* A disabled rule that would exclude the path if it were enabled, next to a
\* rule that does not compile, and the path is not excluded.
C12_Witness ==
    /\ qDone
    /\ ~qResult
    /\ \E k \in 1..Len(Rules) :
           /\ ~Rules[k].Enabled
           /\ Answer(<<[Rules[k] EXCEPT !.Enabled = TRUE]>>)
    /\ \E k \in 1..Len(Rules) :
           /\ Rules[k].Enabled
           /\ Inert(Rules[k])

\* The orders of a list of n rules.
Perms(n) == {f \in [1..n -> 1..n] : \A i \in 1..n, j \in 1..n : f[i] = f[j] => i = j}

Permuted(rules, f) == [i \in 1..Len(rules) |-> rules[f[i]]]

\* C13: the rules are OR'd: a path is excluded exactly when one of the rules
\* alone excludes it; so every order of the list gives the same answer, and
\* adding a rule never turns an excluded path into a non-excluded one.
C13_RulesAreOred ==
    qDone =>
        /\ qResult = (\E k \in 1..Len(Rules) : Answer(<<Rules[k]>>))
        /\ \A f \in Perms(Len(Rules)) : Answer(Permuted(Rules, f)) = qResult
        /\ \A r \in ListRuleUniverse :
               /\ qResult => Answer(Append(Rules, r))
               /\ qResult => Answer(<<r>> \o Rules)

\* A path excluded by the last rule of a list whose first rule does not
\* exclude it.
C13_Witness ==
    /\ qDone
    /\ qResult
    /\ Len(Rules) > 1
    /\ Rules[1].Enabled
    /\ ~Inert(Rules[1])
    /\ ~Answer(<<Rules[1]>>)
    /\ Answer(<<Rules[Len(Rules)]>>)

(***************************************************************************)
(* Specification of a comparison of an archive that has a root folder with *)
(* a working directory, no rule excluding anything.                        *)
(***************************************************************************)
\* File entries inside the root folder "r" and one outside it.
RootZipFileNames == { <<"r", Slash, "a">>, <<"r", Slash, "b">>, <<"b">> }

RootContents == 1..DigestSpace

RootZipEntryUniverse ==
    { ZipEntry(n, FALSE, c) : n \in RootZipFileNames, c \in RootContents }
    \cup { ZipEntry(n, TRUE, 0) : n \in ZipDirNames }

RootArchives == UNION {[1..k -> RootZipEntryUniverse] : k \in 0..MaxZipEntries}

RootWorkRelPaths == { <<"a">>, <<"c">> }

RootWorkTrees ==
    UNION { [{Join(WorkDir, r) : r \in rels} -> RootContents] :
              rels \in {x \in SUBSET RootWorkRelPaths : Cardinality(x) <= MaxWorkFiles} }

RootInit ==
    /\ excludeMatcher = NewExcludeMatcher(<<>>)
    /\ zipEntries \in RootArchives
    /\ workTree \in RootWorkTrees
    /\ CompareStart
    /\ MatchIdle
    /\ AuxIdle

RootSpec == RootInit /\ [][Next]_vars

\* The first path segment of a name: what stands before its first "/".
FirstSegment(name) ==
    LET b == CHOOSE c \in SegBounds(name) : c[1] = 1
    IN SubSeq(name, b[1], b[2])

\* The path the listing is to give a file entry: its name without the
\* prefix "<root>/" when it has that prefix, its name otherwise.
StrippedName(name, root) ==
    IF Len(name) > Len(root) /\ SubSeq(name, 1, Len(root) + 1) = root \o <<Slash>>
    THEN SubSeq(name, Len(root) + 2, Len(name))
    ELSE name

FileEntries == {i \in 1..Len(zipEntries) : ~zipEntries[i].IsDir}

ExampleArchive ==
    << ZipEntry(<<"r", Slash, "a">>, FALSE, 1), ZipEntry(<<"r", Slash, "b">>, FALSE, 2) >>

ExampleWorkTree == (Join(WorkDir, <<"a">>) :> 1) @@ (Join(WorkDir, <<"c">>) :> 2)

\* C14: the archive listing takes the first path segment of the first entry as
\* the root folder, strips "<root>/" from every file entry that has that
\* prefix and keeps every other file entry's path unchanged; so the archive
\* r/a (content 1), r/b against the working directory a (content 1), c gives
\* exactly one deleted item b and one added item c, and nothing for a.
C14_RootFolderStripped ==
    /\ zipReader # "nil" /\ zipEntries # <<>> =>
          LET root == FirstSegment(zipEntries[1].Name)
          IN /\ DOMAIN zipFiles = {StrippedName(zipEntries[i].Name, root) : i \in FileEntries}
             /\ \A k \in DOMAIN zipFiles :
                    /\ zipFiles[k] \in FileEntries
                    /\ StrippedName(zipEntries[zipFiles[k]].Name, root) = k
    /\ Returned /\ zipEntries = ExampleArchive /\ workTree = ExampleWorkTree
           /\ hashErr = <<>> =>
          /\ Len(Items) = 2
          /\ {<<Items[i].RelPath, Items[i].Type>> : i \in 1..Len(Items)} =
                { << <<"b">>, "deleted" >>, << <<"c">>, "added" >> }

\* A listed archive whose first entry lies in the root folder and is
\* stripped, and whose second entry lies outside it and keeps its name.
C14_Witness ==
    /\ Returned
    /\ Len(zipEntries) = 2
    /\ zipEntries[1].Name = <<"r", Slash, "a">>
    /\ zipEntries[2].Name = <<"b">>
    /\ DOMAIN zipFiles = { <<"a">>, <<"b">> }

\* The comparison of the example has returned.
C14_ExampleReturned ==
    Returned /\ zipEntries = ExampleArchive /\ workTree = ExampleWorkTree /\ hashErr = <<>>

(***************************************************************************)
(* ExportDiffs (compare.go): the selected items that are not deletions are *)
(* copied into the output directory, one after the other.                  *)
(***************************************************************************)
OutputDir == <<Slash, "o">>

isExportableIgnoringSelected(item) == item.Type # "deleted"

\* The filter of ExportDiffs' first loop.
isExportable(item) == item.Selected /\ item.Type # "deleted"

RECURSIVE selectItems(_)
selectItems(items) ==
    IF items = <<>> THEN <<>>
    ELSE (IF isExportable(Head(items)) THEN <<Head(items)>> ELSE <<>>)
         \o selectItems(Tail(items))

exportEventTotalAll(i, items, selected) ==
    ProgressEvent(i + 1, Len(items), selected[i + 1].RelPath)

\* The onProgress call of iteration i (counted from 0).
exportEvent(i, items, selected) ==
    ProgressEvent(i + 1, Len(selected), selected[i + 1].RelPath)

onCopyErrorContinue(i) == [pc |-> "loop", ret |-> "none", i |-> i + 1]

\* What ExportDiffs does when copyFile fails in iteration i: it returns the
\* error.
onCopyError(i) == [pc |-> "failed", ret |-> "err", i |-> i]

\* os.MkdirAll(outputDir) fails: ExportDiffs returns the error.
ExportMkdirFails ==
    /\ expPc = "start"
    /\ expPc' = "failed"
    /\ expRet' = "err"
    /\ UNCHANGED <<expItems, selectedItems, expI, expProgress, outFiles, copied, copyErr>>
    /\ UNCHANGED <<excludeMatcher, matchVars, compareVars, globVars, configVars, moreVars>>

\* The output directory is made and the exportable items are selected.
ExportBegin ==
    /\ expPc = "start"
    /\ selectedItems' = selectItems(expItems)
    /\ expI' = 0
    /\ expPc' = "loop"
    /\ UNCHANGED <<expItems, expRet, expProgress, outFiles, copied, copyErr>>
    /\ UNCHANGED <<excludeMatcher, matchVars, compareVars, globVars, configVars, moreVars>>

\* An iteration of the copy loop starts: onProgress is called.
ExportProgress ==
    /\ expPc = "loop"
    /\ expI < Len(selectedItems)
    /\ expProgress' = Append(expProgress, exportEvent(expI, expItems, selectedItems))
    /\ expPc' = "copy"
    /\ UNCHANGED <<expItems, selectedItems, expI, expRet, outFiles, copied, copyErr>>
    /\ UNCHANGED <<excludeMatcher, matchVars, compareVars, globVars, configVars, moreVars>>

\* copyFile(item.SourcePath, destPath) and what ExportDiffs does with its
\* result.  copyFile returns nil; or it fails before the destination exists
\* (MkdirAll, os.Open, os.Create); or it fails in io.Copy and leaves an
\* incomplete destination.  An empty source path cannot be opened.
ExportCopy ==
    /\ expPc = "copy"
    /\ LET item == selectedItems[expI + 1]
           destPath == Join(OutputDir, item.RelPath)
           written(complete) ==
               [q \in DOMAIN outFiles \cup {destPath} |->
                   IF q = destPath THEN [Src |-> item.SourcePath, Complete |-> complete]
                   ELSE outFiles[q]]
           fail == onCopyError(expI)
       IN \/ /\ item.SourcePath # <<>>
             /\ outFiles' = written(TRUE)
             /\ copied' = Append(copied, [Src |-> item.SourcePath, Dest |-> destPath])
             /\ expI' = expI + 1
             /\ expPc' = "loop"
             /\ UNCHANGED <<expRet, copyErr>>
          \/ /\ copyErr' = expI + 1
             /\ \/ UNCHANGED outFiles
                \/ item.SourcePath # <<>> /\ outFiles' = written(FALSE)
             /\ expI' = fail.i
             /\ expPc' = fail.pc
             /\ expRet' = fail.ret
             /\ UNCHANGED copied
    /\ UNCHANGED <<expItems, selectedItems, expProgress>>
    /\ UNCHANGED <<excludeMatcher, matchVars, compareVars, globVars, configVars, moreVars>>

\* The copy loop is over: ExportDiffs returns nil.
ExportReturn ==
    /\ expPc = "loop"
    /\ expI = Len(selectedItems)
    /\ expPc' = "done"
    /\ expRet' = "ok"
    /\ UNCHANGED <<expItems, selectedItems, expI, expProgress, outFiles, copied, copyErr>>
    /\ UNCHANGED <<excludeMatcher, matchVars, compareVars, globVars, configVars, moreVars>>

\* The items given to ExportDiffs: items as Compare makes them (one item for
\* a relative path; a deletion has no source path), selected or not.
ExportRelPaths == { <<"a">>, <<"b">>, <<"c">>, <<"d", Slash, "a">> }

ExportItem(relPath, type, selected) ==
    [RelPath |-> relPath, Type |-> type, Selected |-> selected,
     SourcePath |-> IF type = "deleted" THEN <<>> ELSE Join(WorkDir, relPath)]

ExportItemUniverse ==
    { ExportItem(p, t, sel) :
        p \in ExportRelPaths, t \in {"added", "modified", "deleted"}, sel \in BOOLEAN }

ExportItemLists ==
    { items \in UNION {[1..k -> ExportItemUniverse] : k \in 0..MaxExportItems} :
        \A i \in 1..Len(items), j \in 1..Len(items) :
            items[i].RelPath = items[j].RelPath => i = j }

ExportInit ==
    /\ expItems \in ExportItemLists
    /\ selectedItems = <<>>
    /\ expI = 0
    /\ expPc = "start"
    /\ expRet = "none"
    /\ expProgress = <<>>
    /\ outFiles = <<>>
    /\ copied = <<>>
    /\ copyErr = 0
    /\ excludeMatcher = NilMatcher
    /\ MatchIdle
    /\ CompareIdle
    /\ GlobIdle
    /\ ConfigIdle
    /\ MoreIdle

ExportNext ==
    \/ ExportMkdirFails
    \/ ExportBegin
    \/ ExportProgress
    \/ ExportCopy
    \/ ExportReturn

ExportSpec == ExportInit /\ [][ExportNext]_vars

\* The positions in the input of the items to export: selected and not a
\* deletion.
Exportable ==
    {i \in 1..Len(expItems) : expItems[i].Selected /\ expItems[i].Type # "deleted"}

\* The input position of the k-th item to export, in input order.
ExportablePos(k) ==
    CHOOSE i \in Exportable : Cardinality({j \in Exportable : j <= i}) = k

\* Where the item at input position i is copied to.
DestOf(i) == OutputDir \o <<Slash>> \o expItems[i].RelPath

\* C15: ExportDiffs copies a file to outputDir/RelPath for exactly the input
\* items that are selected and are not deletions: a deleted item is never
\* copied, even when selected, and an unselected item is never copied.
C15_CopiesExactlySelected ==
    /\ \A q \in DOMAIN outFiles :
           \E i \in Exportable : q = DestOf(i) /\ outFiles[q].Src = expItems[i].SourcePath
    /\ \A k \in 1..Len(copied) :
           \E i \in Exportable :
               copied[k] = [Src |-> expItems[i].SourcePath, Dest |-> DestOf(i)]
    /\ expRet = "ok" =>
           /\ DOMAIN outFiles = {DestOf(i) : i \in Exportable}
           /\ \A q \in DOMAIN outFiles : outFiles[q].Complete
           /\ Len(copied) = Cardinality(Exportable)

\* A finished export of a selected item, given next to a selected deletion
\* and an unselected addition.
C15_Witness ==
    /\ expRet = "ok"
    /\ copied # <<>>
    /\ \E i \in 1..Len(expItems) : expItems[i].Selected /\ expItems[i].Type = "deleted"
    /\ \E i \in 1..Len(expItems) : ~expItems[i].Selected /\ expItems[i].Type = "added"

\* C16: ExportDiffs copies the exportable items in input order and returns an
\* error at the first copy that fails: the files copied before it remain in
\* the output directory and no later item is copied.
C16_StopsAtFirstFailure ==
    /\ \A k \in 1..Len(copied) :
           copied[k] = [Src |-> expItems[ExportablePos(k)].SourcePath,
                        Dest |-> DestOf(ExportablePos(k))]
    /\ copyErr > 0 =>
           /\ expRet = "err"
           /\ expPc = "failed"
           /\ Len(copied) = copyErr - 1
           /\ \A k \in 1..(copyErr - 1) :
                  /\ DestOf(ExportablePos(k)) \in DOMAIN outFiles
                  /\ outFiles[DestOf(ExportablePos(k))] =
                         [Src |-> expItems[ExportablePos(k)].SourcePath, Complete |-> TRUE]
           /\ \A k \in (copyErr + 1)..Cardinality(Exportable) :
                  DestOf(ExportablePos(k)) \notin DOMAIN outFiles

\* The second of three copies failed.
C16_Witness ==
    /\ copyErr = 2
    /\ Cardinality(Exportable) = 3
    /\ Len(copied) = 1

\* The copyFile calls made so far.
CopiesStarted == Len(copied) + (IF copyErr > 0 THEN 1 ELSE 0) + (IF expPc = "copy" THEN 1 ELSE 0)

\* C17: the export callback fires exactly once for each exportable item,
\* before that item's copy starts, with current the 1-based position among
\* the exportable items and total their number; when the k-th copy fails
\* exactly k events have fired; no event fires when the output directory
\* cannot be made.
C17_ExportProgress ==
    /\ \A k \in 1..Len(expProgress) :
           /\ expProgress[k].Current = k
           /\ expProgress[k].Total = Cardinality(Exportable)
    /\ Len(expProgress) = CopiesStarted
    /\ copyErr > 0 => Len(expProgress) = copyErr
    /\ expRet = "ok" => Len(expProgress) = Cardinality(Exportable)
    /\ expPc = "failed" /\ copyErr = 0 => expProgress = <<>>

\* Two events have fired for the two exportable items of an input that also
\* holds an item not to export, and the second copy has failed.
C17_Witness ==
    /\ copyErr = 2
    /\ Len(expProgress) = 2
    /\ Cardinality(Exportable) = 2
    /\ Len(expItems) = 3

\* The output directory could not be made.
C17_MkdirFailed == expPc = "failed" /\ copyErr = 0 /\ Cardinality(Exportable) > 0

(***************************************************************************)
(* Progress of a comparison.                                               *)
(***************************************************************************)
\* |archiveFiles| + |workingFiles|.
ListingTotal == Cardinality(DOMAIN zipFiles) + Cardinality(DOMAIN workFiles)

\* C18: during a successful Compare the progress callback fires once for
\* every path of the archive listing and once for every path of the
\* working-directory listing, each time with total = |archiveFiles| +
\* |workingFiles|, so that the running counter of the last callback equals
\* that total.
C18_ProgressReachesTotal ==
    Returned =>
        /\ \A k \in 1..Len(progress) :
               /\ progress[k].Current = k
               /\ progress[k].Total = ListingTotal
        /\ progress # <<>> => Last(progress).Current = ListingTotal

\* What the callbacks do satisfy: one callback for every path of either
\* listing that is not excluded, counted from 1, each with the total of both
\* listings.
C18_ProgressPerIncludedPath ==
    Returned =>
        /\ \A k \in 1..Len(progress) :
               /\ progress[k].Current = k
               /\ progress[k].Total = ListingTotal
        /\ Len(progress) = Cardinality({q \in DOMAIN zipFiles : ~Excluded(q)})
                           + Cardinality({q \in DOMAIN workFiles : ~Excluded(q)})

(***************************************************************************)
(* Specification of the configuration Manager: NewManager, then calls of   *)
(* its rule methods.                                                       *)
(***************************************************************************)
\* Rules a user adds.
CustomRules ==
    { ExcludeRule(<<"x">>, "glob", FALSE, TRUE), ExcludeRule(<<"y">>, "regex", TRUE, FALSE) }

\* Rule lists a user sets, or a configuration file holds.
CustomRuleLists ==
    { <<>>,
      <<ExcludeRule(<<"x">>, "glob", FALSE, TRUE)>>,
      <<ExcludeRule(<<"x">>, "glob", FALSE, TRUE), ExcludeRule(<<"y">>, "regex", TRUE, FALSE)>> }

\* NewManager: the configuration file holds rules, or it holds none (or is
\* missing, or unreadable) and the rules are defaultExcludeRules.
ConfigInit ==
    /\ defaultExcludeRules = DefaultRulesLiteral
    /\ \/ \E rules \in CustomRuleLists \ {<<>>} : cfgRules = OwnSlice(rules)
       \/ cfgRules = SharedSlice(Len(DefaultRulesLiteral))
    /\ cfgLast = "none"
    /\ cfgOps = 0
    /\ cfgCall = NoCall
    /\ excludeMatcher = NilMatcher
    /\ MatchIdle
    /\ CompareIdle
    /\ GlobIdle
    /\ ExportIdle
    /\ MoreIdle

ConfigCalled(name) ==
    /\ cfgOps < MaxConfigOps
    /\ cfgOps' = cfgOps + 1
    /\ cfgLast' = name
    /\ UNCHANGED <<excludeMatcher, matchVars, compareVars, globVars, exportVars, moreVars>>

\* return m.Save(): the file is written, or the error of the write is
\* returned; index is the argument of the call.
Save(index) ==
    \E err \in {"nil", "err"} :
        cfgCall' = [Prev |-> Elements(cfgRules, defaultExcludeRules), Index |-> index,
                    Saved |-> TRUE, Err |-> err]

indexOutOfRangeAbove(index, n) == index < 0 \/ index > n

\* RemoveExcludeRule's test of its argument against the length of the list.
indexOutOfRange(index, n) == index < 0 \/ index >= n

\* Manager.SetExcludeRules(rules): the caller's slice is stored.
SetExcludeRules(rules) ==
    /\ ConfigCalled("set")
    /\ Save(0)
    /\ cfgRules' = OwnSlice(rules)
    /\ UNCHANGED defaultExcludeRules

\* Manager.AddExcludeRule(rule): append writes into the array of the slice
\* when its capacity allows, and into a new array otherwise.
AddExcludeRule(rule) ==
    /\ ConfigCalled("add")
    /\ Save(0)
    /\ IF cfgRules.shared /\ cfgRules.len < Len(defaultExcludeRules)
       THEN /\ defaultExcludeRules' = [defaultExcludeRules EXCEPT ![cfgRules.len + 1] = rule]
            /\ cfgRules' = SharedSlice(cfgRules.len + 1)
       ELSE /\ cfgRules' = OwnSlice(Append(Elements(cfgRules, defaultExcludeRules), rule))
            /\ UNCHANGED defaultExcludeRules

\* Manager.RemoveExcludeRule(index): append(s[:index], s[index+1:]...) moves
\* the elements after index one place down in the array of the slice.
RemoveExcludeRule(index) ==
    /\ ConfigCalled("remove")
    /\ IF indexOutOfRange(index, cfgRules.len)
       THEN /\ cfgCall' = [Prev |-> Elements(cfgRules, defaultExcludeRules), Index |-> index,
                           Saved |-> FALSE, Err |-> "nil"]
            /\ UNCHANGED <<cfgRules, defaultExcludeRules>>
       ELSE /\ Save(index)
            /\ IF cfgRules.shared
               THEN /\ defaultExcludeRules' =
                          [j \in 1..Len(defaultExcludeRules) |->
                              IF j > index /\ j < cfgRules.len
                              THEN defaultExcludeRules[j + 1]
                              ELSE defaultExcludeRules[j]]
                    /\ cfgRules' = SharedSlice(cfgRules.len - 1)
               ELSE /\ cfgRules' = OwnSlice(SubSeq(cfgRules.own, 1, index)
                                            \o SubSeq(cfgRules.own, index + 2, cfgRules.len))
                    /\ UNCHANGED defaultExcludeRules

\* Manager.ResetExcludeRules: the slice defaultExcludeRules is stored.
ResetExcludeRules ==
    /\ ConfigCalled("reset")
    /\ Save(0)
    /\ cfgRules' = SharedSlice(Len(defaultExcludeRules))
    /\ UNCHANGED defaultExcludeRules

ConfigNext ==
    \/ \E rules \in CustomRuleLists : SetExcludeRules(rules)
    \/ \E rule \in CustomRules : AddExcludeRule(rule)
    \/ \E index \in (0 - 1)..(cfgRules.len + 1) : RemoveExcludeRule(index)
    \/ ResetExcludeRules

ConfigSpec == ConfigInit /\ [][ConfigNext]_vars

\* C19: after any sequence of SetExcludeRules, AddExcludeRule,
\* RemoveExcludeRule and ResetExcludeRules calls, a ResetExcludeRules leaves
\* GetExcludeRules returning exactly the original built-in default list.
C19_ResetRestoresDefaults ==
    cfgLast = "reset" => GetExcludeRules(cfgRules, defaultExcludeRules) = DefaultRulesLiteral

(***************************************************************************)
(* Specification of the exclusion decision of a Comparer: the decision     *)
(* Compare takes for one relative path, with no rule set and with the      *)
(* default rules set.                                                      *)
(***************************************************************************)
\* Names of directories and files of a project.
ProjectSegments ==
    { <<"o", "b", "j">>,
      <<"b", "i", "n">>,
      <<".", "v", "s", "c", "o", "d", "e">>,
      <<"n", "o", "d", "e", "_", "m", "o", "d", "u", "l", "e", "s">>,
      <<"P", "r", "o", "p", "e", "r", "t", "i", "e", "s">>,
      <<"s", "r", "c">>,
      <<"a", ".", "g", "o">>,
      <<"x", ".", "s", "u", "o">>,
      <<"a", ".", "u", "s", "e", "r">>,
      <<"p", ".", "c", "s", "p", "r", "o", "j">>,
      <<"p", ".", "v", "b", "p", "r", "o", "j", ".", "u", "s", "e", "r">>,
      <<".", "D", "S", "_", "S", "t", "o", "r", "e">> }

\* Relative paths of one and of two segments.
ProjectPaths ==
    ProjectSegments \cup {d \o <<Slash>> \o f : d \in ProjectSegments, f \in ProjectSegments}

SkipInit ==
    /\ excludeMatcher \in {NilMatcher, NewExcludeMatcher(DefaultRulesLiteral)}
    /\ qPath \in ProjectPaths
    /\ qIsDir = FALSE
    /\ qResult = FALSE
    /\ qDone = FALSE
    /\ CompareIdle
    /\ AuxIdle

\* The decision Compare takes for the path: c.shouldExclude(relPath, false).
SkipQuery ==
    /\ ~qDone
    /\ qResult' = skipPath(excludeMatcher, qPath)
    /\ qDone' = TRUE
    /\ UNCHANGED <<excludeMatcher, qPath, qIsDir, compareVars, auxVars>>

SkipNext == SkipQuery

SkipSpec == SkipInit /\ [][SkipNext]_vars

\* C20: when no rule set has been set on the Comparer, Compare excludes a
\* path exactly when a matcher compiled from the built-in default rules
\* excludes it as a file.
C20_UnconfiguredUsesDefaultRules ==
    qDone /\ excludeMatcher.nil =>
        (qResult = ShouldExclude(NewExcludeMatcher(DefaultRulesLiteral), qPath, FALSE))

\* With the default rules set on the Comparer the decision is the matcher's.
C20_ConfiguredUsesMatcher ==
    qDone /\ ~excludeMatcher.nil => (qResult = ShouldExclude(excludeMatcher, qPath, FALSE))

(***************************************************************************)
(* TextDiffer.CompareTexts (diff.go): the diff of two texts, flattened     *)
(* into lines.                                                             *)
(***************************************************************************)
Newline == "\n"

\* diffmatchpatch.Diff.
Diff(type, text) == [Type |-> type, Text |-> text]

\* The span lists that turn o into n and have the shape DiffMain and
\* DiffCleanupSemantic give their result: no empty span, no two equal spans
\* in a row, between two equal spans at most one deletion and then at most
\* one insertion.  last is the type of the span before.
RECURSIVE EditScripts(_, _, _)
EditScripts(o, n, last) ==
    IF o = <<>> /\ n = <<>> THEN {<<>>}
    ELSE
      (IF last = "DiffEqual" THEN {}
       ELSE UNION { { <<Diff("DiffEqual", SubSeq(o, 1, k))>> \o rest :
                        rest \in EditScripts(SubSeq(o, k + 1, Len(o)),
                                             SubSeq(n, k + 1, Len(n)), "DiffEqual") } :
                    k \in {j \in 1..Len(o) : j <= Len(n) /\ SubSeq(o, 1, j) = SubSeq(n, 1, j)} })
      \cup
      (IF last \in {"DiffDelete", "DiffInsert"} THEN {}
       ELSE UNION { { <<Diff("DiffDelete", SubSeq(o, 1, k))>> \o rest :
                        rest \in EditScripts(SubSeq(o, k + 1, Len(o)), n, "DiffDelete") } :
                    k \in 1..Len(o) })
      \cup
      (IF last = "DiffInsert" THEN {}
       ELSE UNION { { <<Diff("DiffInsert", SubSeq(n, 1, k))>> \o rest :
                        rest \in EditScripts(o, SubSeq(n, k + 1, Len(n)), "DiffInsert") } :
                    k \in 1..Len(n) })

\* The results DiffMain followed by DiffCleanupSemantic can give: for equal
\* texts no span (both empty) or the one equal span; for different texts a
\* span list that turns the old text into the new one.
DiffMain(oldText, newText) ==
    IF oldText = newText
    THEN IF oldText = <<>> THEN {<<>>} ELSE {<<Diff("DiffEqual", oldText)>>}
    ELSE EditScripts(oldText, newText, "none")

diffTypeAlwaysEqual(type) == "equal"

\* The switch on diff.Type.
diffType(type) ==
    CASE type = "DiffInsert" -> "insert"
      [] type = "DiffDelete" -> "delete"
      [] OTHER -> "equal"

skipLineIfEmpty(lines, i) == lines[i] = <<>>

\* The condition of the continue: the last piece, when it is empty.
skipLine(lines, i) == i = Len(lines) /\ lines[i] = <<>>

DiffLine(type, content) == [Type |-> type, Content |-> content]

\* The inner loop: the lines of one span.
spanLines(diff) ==
    LET lines == Split(diff.Text, Newline)
        F[i \in 0..Len(lines)] ==
            IF i = 0 THEN <<>>
            ELSE IF skipLine(lines, i) THEN F[i - 1]
            ELSE Append(F[i - 1], DiffLine(diffType(diff.Type), lines[i]))
    IN F[Len(lines)]

\* The outer loop: the lines of all spans, in span order.
RECURSIVE flattenDiffs(_)
flattenDiffs(diffs) ==
    IF diffs = <<>> THEN <<>>
    ELSE spanLines(Head(diffs)) \o flattenDiffs(Tail(diffs))

\* CompareTexts, diffs being what DiffMain and DiffCleanupSemantic gave.
CompareTexts(oldText, newText, diffs) ==
    [OldContent |-> oldText, NewContent |-> newText, Lines |-> flattenDiffs(diffs)]

(***************************************************************************)
(* Specification of CompareTexts on two texts.                             *)
(***************************************************************************)
DiffAlphabet == {"a", "b", Newline}

DiffTexts == StringsUpTo(DiffAlphabet, MaxDiffTextLen)

TextInit ==
    /\ dOld \in DiffTexts
    /\ dNew \in DiffTexts
    /\ dDiffs = <<>>
    /\ dResult = NoTextDiff
    /\ dDone = FALSE
    /\ excludeMatcher = NilMatcher
    /\ MatchIdle
    /\ CompareIdle
    /\ GlobIdle
    /\ ExportIdle
    /\ ConfigIdle
    /\ AppIdle
    /\ ConcIdle

\* The call CompareTexts(dOld, dNew).
CompareTextsCall ==
    /\ ~dDone
    /\ \E diffs \in DiffMain(dOld, dNew) :
           /\ dDiffs' = diffs
           /\ dResult' = CompareTexts(dOld, dNew, diffs)
    /\ dDone' = TRUE
    /\ UNCHANGED <<dOld, dNew>>
    /\ UNCHANGED <<excludeMatcher, matchVars, compareVars, globVars, exportVars, configVars,
                   appVars, concVars>>

TextNext == CompareTextsCall

TextSpec == TextInit /\ [][TextNext]_vars

\* The positions of the newlines of a text.
NewlinesOf(t) == {i \in 1..Len(t) : t[i] = Newline}

\* The k-th newline-separated piece of a text, k from 1 to the number of its
\* newlines plus one: what stands between the (k-1)-th and the k-th newline.
PieceOf(t, k) ==
    LET nth(m) == IF m = 0 THEN 0
                  ELSE IF m > Cardinality(NewlinesOf(t)) THEN Len(t) + 1
                  ELSE CHOOSE i \in NewlinesOf(t) :
                           Cardinality({j \in NewlinesOf(t) : j <= i}) = m
    IN SubSeq(t, nth(k - 1) + 1, nth(k) - 1)

\* The lines of a text: its pieces, without the last one when it is empty.
LinesOfText(t) ==
    LET n == Cardinality(NewlinesOf(t)) + 1
        m == IF PieceOf(t, n) = <<>> THEN n - 1 ELSE n
    IN [k \in 1..m |-> PieceOf(t, k)]

\* C24: CompareTexts(A, A) returns only lines of type "equal" whose contents,
\* in order, are the lines of A: A split on newline, without a final empty
\* piece; for the empty A it returns no lines.
C24_SelfDiffIsEqualLines ==
    dDone /\ dOld = dNew =>
        /\ \A i \in 1..Len(dResult.Lines) : dResult.Lines[i].Type = "equal"
        /\ [i \in 1..Len(dResult.Lines) |-> dResult.Lines[i].Content] = LinesOfText(dOld)
        /\ dOld = <<>> => dResult.Lines = <<>>

\* A text with an empty line and a terminating newline, compared with
\* itself.
C24_Witness ==
    /\ dDone
    /\ dOld = <<Newline, Newline>>
    /\ dNew = dOld
    /\ Len(dResult.Lines) = 2

\* The type a line of a span of type t is to have.
LineTypeOf(t) ==
    IF t = "DiffInsert" THEN "insert" ELSE IF t = "DiffDelete" THEN "delete" ELSE "equal"

\* The number of lines the first k spans are to give.
LinesBefore(k) ==
    LET F[i \in 0..Len(dDiffs)] ==
            IF i = 0 THEN 0 ELSE F[i - 1] + Len(LinesOfText(dDiffs[i].Text))
    IN F[k]

\* C26: each span contributes one line for each newline-separated piece of
\* its text, of the span's type, but none for a final empty piece; no line
\* content holds a newline, every line type is equal, insert or delete, and
\* the lines stand in span order.
C26_SpansFlattenedToLines ==
    dDone =>
        /\ Len(dResult.Lines) = LinesBefore(Len(dDiffs))
        /\ \A k \in 1..Len(dDiffs) :
               \A j \in 1..Len(LinesOfText(dDiffs[k].Text)) :
                   dResult.Lines[LinesBefore(k - 1) + j] =
                       [Type |-> LineTypeOf(dDiffs[k].Type),
                        Content |-> LinesOfText(dDiffs[k].Text)[j]]
        /\ \A i \in 1..Len(dResult.Lines) :
               /\ dResult.Lines[i].Type \in {"equal", "insert", "delete"}
               /\ \A c \in 1..Len(dResult.Lines[i].Content) :
                      dResult.Lines[i].Content[c] # Newline

\* A deletion that ends with a newline, then an insertion of two lines.
C26_Witness ==
    /\ dDone
    /\ Len(dDiffs) = 2
    /\ dDiffs[1] = [Type |-> "DiffDelete", Text |-> <<"a", Newline>>]
    /\ dDiffs[2].Type = "DiffInsert"
    /\ Len(dResult.Lines) = 3

(***************************************************************************)
(* IsTextFile (diff.go) and the methods of App that open an archive:       *)
(* GetTextDiff and GetZipRootFolder.                                       *)
(***************************************************************************)
\* The keys of IsTextFile's textExtensions.
TextExtensions ==
    { <<".", "t", "x", "t">>,
      <<".", "m", "d">>,
      <<".", "j", "s", "o", "n">>,
      <<".", "x", "m", "l">>,
      <<".", "h", "t", "m", "l">>,
      <<".", "h", "t", "m">>,
      <<".", "c", "s", "s">>,
      <<".", "j", "s">>,
      <<".", "t", "s">>,
      <<".", "g", "o">>,
      <<".", "p", "y">>,
      <<".", "j", "a", "v", "a">>,
      <<".", "c">>,
      <<".", "c", "p", "p">>,
      <<".", "h">>,
      <<".", "h", "p", "p">>,
      <<".", "c", "s">>,
      <<".", "v", "b">>,
      <<".", "s", "q", "l">>,
      <<".", "s", "h">>,
      <<".", "b", "a", "t">>,
      <<".", "p", "s", "1">>,
      <<".", "y", "a", "m", "l">>,
      <<".", "y", "m", "l">>,
      <<".", "t", "o", "m", "l">>,
      <<".", "i", "n", "i">>,
      <<".", "c", "f", "g">>,
      <<".", "c", "o", "n", "f">>,
      <<".", "l", "o", "g">>,
      <<".", "c", "s", "v">>,
      <<".", "t", "s", "v">>,
      <<".", "s", "v", "g">>,
      <<".", "v", "u", "e">>,
      <<".", "j", "s", "x">>,
      <<".", "t", "s", "x">>,
      <<".", "s", "v", "e", "l", "t", "e">> }

UpperLetters ==
    << "A", "B", "C", "D", "E", "F", "G", "H", "I", "J", "K", "L", "M", 
       "N", "O", "P", "Q", "R", "S", "T", "U", "V", "W", "X", "Y", "Z" >>

LowerLetters ==
    << "a", "b", "c", "d", "e", "f", "g", "h", "i", "j", "k", "l", "m", 
       "n", "o", "p", "q", "r", "s", "t", "u", "v", "w", "x", "y", "z" >>

\* strings.ToLower on the letters A to Z.
ToLower(t) ==
    [i \in 1..Len(t) |->
        IF \E k \in 1..Len(UpperLetters) : UpperLetters[k] = t[i]
        THEN LowerLetters[CHOOSE k \in 1..Len(UpperLetters) : UpperLetters[k] = t[i]]
        ELSE t[i]]

\* getFileExt: from the last dot that no "/" or "\" follows, or empty.
getFileExt(filename) ==
    LET F[i \in 0..Len(filename)] ==
            IF i = 0 THEN <<>>
            ELSE IF filename[i] = "." THEN SubSeq(filename, i, Len(filename))
            ELSE IF filename[i] = Slash \/ filename[i] = Backslash THEN <<>>
            ELSE F[i - 1]
    IN F[Len(filename)]

IsTextFile(filename) == ToLower(getFileExt(filename)) \in TextExtensions

previewAllowedAlways(relPath) == TRUE

\* GetTextDiff's first check.
previewAllowed(relPath) == IsTextFile(relPath)

\* The method refuses the path: no archive is opened.
DiffRejected ==
    /\ appOp = "diff"
    /\ appPc = "start"
    /\ ~previewAllowed(appRelPath)
    /\ appPc' = "done"
    /\ appRet' = "err"
    /\ appErr' = "nottext"
    /\ UNCHANGED <<appOp, appArchive, appWorkTree, appRelPath, appReader, appDiff, appRoot>>
    /\ UNCHANGED <<excludeMatcher, matchVars, compareVars, globVars, exportVars, configVars,
                   textVars, concVars>>

\* NewZipReader fails: the method returns the error.
AppOpenFails ==
    /\ appPc = "start"
    /\ appOp = "diff" => previewAllowed(appRelPath)
    /\ appPc' = "done"
    /\ appRet' = "err"
    /\ appErr' = "open"
    /\ UNCHANGED <<appOp, appArchive, appWorkTree, appRelPath, appReader, appDiff, appRoot>>
    /\ UNCHANGED <<excludeMatcher, matchVars, compareVars, globVars, exportVars, configVars,
                   textVars, concVars>>

\* NewZipReader succeeds and the Close is deferred.
AppOpen ==
    /\ appPc = "start"
    /\ appOp = "diff" => previewAllowed(appRelPath)
    /\ appReader' = "open"
    /\ appPc' = "opened"
    /\ UNCHANGED <<appOp, appArchive, appWorkTree, appRelPath, appRet, appErr, appDiff, appRoot>>
    /\ UNCHANGED <<excludeMatcher, matchVars, compareVars, globVars, exportVars, configVars,
                   textVars, concVars>>

\* The rest of GetTextDiff: CompareFiles reads the entry of relPath
\* (ReadFileContent) and the file (os.ReadFile) and compares the texts; the
\* deferred Close runs.  Either read can fail.
DiffFinish ==
    /\ appOp = "diff"
    /\ appPc = "opened"
    /\ LET files == ListFiles(appArchive)
           workFilePath == Join(WorkDir, appRelPath)
           fails(why) == appRet' = "err" /\ appErr' = why /\ UNCHANGED appDiff
       IN IF appRelPath \notin DOMAIN files THEN fails("notfound")
          ELSE \/ fails("zipread")
               \/ IF workFilePath \notin DOMAIN appWorkTree THEN fails("workread")
                  ELSE \/ fails("workread")
                       \/ \E diffs \in DiffMain(appArchive[files[appRelPath]].Content,
                                                 appWorkTree[workFilePath]) :
                             /\ appDiff' = CompareTexts(appArchive[files[appRelPath]].Content,
                                                        appWorkTree[workFilePath], diffs)
                             /\ appRet' = "ok"
                             /\ UNCHANGED appErr
    /\ appReader' = Close(appReader)
    /\ appPc' = "done"
    /\ UNCHANGED <<appOp, appArchive, appWorkTree, appRelPath, appRoot>>
    /\ UNCHANGED <<excludeMatcher, matchVars, compareVars, globVars, exportVars, configVars,
                   textVars, concVars>>

\* The rest of GetZipRootFolder.
RootFinish ==
    /\ appOp = "root"
    /\ appPc = "opened"
    /\ appRoot' = GetRootFolder(appArchive)
    /\ appRet' = "ok"
    /\ appReader' = Close(appReader)
    /\ appPc' = "done"
    /\ UNCHANGED <<appOp, appArchive, appWorkTree, appRelPath, appErr, appDiff>>
    /\ UNCHANGED <<excludeMatcher, matchVars, compareVars, globVars, exportVars, configVars,
                   textVars, concVars>>

\* Contents of text files.
PreviewTexts == { <<"a">>, <<"a", Newline, "b">> }

PreviewZipEntryUniverse ==
    { ZipEntry(n, FALSE, t) :
        n \in { <<"r", Slash, "a", ".", "g", "o">>,
                <<"r", Slash, "a", ".", "b", "i", "n">> },
        t \in PreviewTexts }
    \cup { ZipEntry(n, TRUE, <<>>) : n \in ZipDirNames }

PreviewArchives == UNION {[1..k -> PreviewZipEntryUniverse] : k \in 0..MaxZipEntries}

PreviewRelPaths ==
    { <<"a", ".", "g", "o">>, <<"a", ".", "G", "O">>,
      <<"b", ".", "m", "d">>, <<"a", ".", "b", "i", "n">>,
      <<"x", ".", "g", "o", Slash, "a">> }

PreviewWorkTrees ==
    UNION { [{Join(WorkDir, r) : r \in rels} -> PreviewTexts] :
              rels \in SUBSET { <<"a", ".", "g", "o">>, <<"b", ".", "m", "d">> } }

AppStart ==
    /\ appPc = "start"
    /\ appReader = "nil"
    /\ appRet = "none"
    /\ appErr = "none"
    /\ appDiff = NoTextDiff
    /\ appRoot = <<>>

\* A call of GetTextDiff or of GetZipRootFolder.
AppCall ==
    /\ appArchive \in PreviewArchives
    /\ \/ /\ appOp = "diff"
          /\ appWorkTree \in PreviewWorkTrees
          /\ appRelPath \in PreviewRelPaths
       \/ /\ appOp = "root"
          /\ appWorkTree = <<>>
          /\ appRelPath = <<>>
    /\ AppStart

AppInit ==
    /\ AppCall
    /\ excludeMatcher = NilMatcher
    /\ MatchIdle
    /\ CompareIdle
    /\ GlobIdle
    /\ ExportIdle
    /\ ConfigIdle
    /\ TextIdle
    /\ ConcIdle

AppNext ==
    \/ DiffRejected
    \/ AppOpenFails
    \/ AppOpen
    \/ DiffFinish
    \/ RootFinish

AppSpec == AppInit /\ [][AppNext]_vars

(***************************************************************************)
(* Specification of the operations that open an archive: a comparison, a   *)
(* text preview, the root folder query.                                    *)
(***************************************************************************)
HandleInit == Init \/ AppInit

HandleNext == Next \/ AppNext

HandleSpec == HandleInit /\ [][HandleNext]_vars

\* C21: every archive handle an operation has opened (Compare, GetTextDiff,
\* GetZipRootFolder) is closed when the operation has returned, whatever the
\* return path after the open: success, listing or walk failure, read
\* failure.
C21_ReaderClosedOnReturn ==
    /\ ret # "none" /\ zipReader # "nil" => zipReader = "closed"
    /\ appRet # "none" /\ appReader # "nil" => appReader = "closed"

\* A preview has failed on a read, after its archive was opened.
C21_Witness ==
    /\ appOp = "diff"
    /\ appRet = "err"
    /\ appErr = "zipread"
    /\ appReader = "closed"

\* A comparison has failed on the walk, after its archive was opened.
C21_CompareWalkFailed == pc = "failed" /\ ret = "err" /\ zipReader = "closed"

\* C25: a diff preview fails, producing no TextDiff, when IsTextFile does not
\* recognise the path (and then the archive is never opened), when relPath is
\* no key of the archive listing, and when the working-directory file cannot
\* be read.
C25_PreviewFails ==
    appOp = "diff" /\ appPc = "done" =>
        /\ ~IsTextFile(appRelPath) =>
               appRet = "err" /\ appDiff = NoTextDiff /\ appReader = "nil"
        /\ appRelPath \notin DOMAIN ListFiles(appArchive) =>
               appRet = "err" /\ appDiff = NoTextDiff
        /\ Join(WorkDir, appRelPath) \notin DOMAIN appWorkTree \/ appErr = "workread" =>
               appRet = "err" /\ appDiff = NoTextDiff

\* The preview of a text file that the working directory has and the archive
\* has not (an added file) has failed.
C25_Witness ==
    /\ appOp = "diff"
    /\ appPc = "done"
    /\ appRelPath = <<"b", ".", "m", "d">>
    /\ Join(WorkDir, appRelPath) \in DOMAIN appWorkTree
    /\ appArchive # <<>>
    /\ appErr = "notfound"
    /\ appReader = "closed"

\* A preview has succeeded.
C25_PreviewSucceeded == appOp = "diff" /\ appRet = "ok" /\ appDiff.Lines # <<>>

(***************************************************************************)
(* More properties of Comparer.Compare, checked under Spec.                *)
(***************************************************************************)
\* C23: when the archive cannot be opened or the walk of the working
\* directory reports an error, Compare returns an error and no result: no
\* item was emitted, no path counted, no progress callback fired.
C23_FailureReturnsNothing ==
    pc = "failed" =>
        /\ ret = "err"
        /\ result = EmptyResult
        /\ processed = 0
        /\ progress = <<>>

\* The walk has failed over a non-empty archive listing and a non-empty
\* working directory.
C23_Witness ==
    /\ pc = "failed"
    /\ zipReader = "closed"
    /\ DOMAIN zipFiles # {}
    /\ DOMAIN workTree # {}

\* The archive could not be opened.
C23_OpenFailed == pc = "failed" /\ zipReader = "nil" /\ Len(zipEntries) > 0

\* The callbacks fired for path p.
CallbacksFor(p) == {k \in 1..Len(progress) : progress[k].Path = p}

\* C27: over the callbacks of one run the counter starts at 1 and grows by
\* one per callback through both loops, the total is the same in every
\* callback, the counter never exceeds it, and a non-excluded path gets its
\* callback in each listing that has it whether or not an item is emitted
\* for it.
C27_ProgressCounter ==
    /\ \A k \in 1..Len(progress) :
           /\ progress[k].Current = k
           /\ progress[k].Total = progress[1].Total
           /\ progress[k].Current <= progress[k].Total
    /\ Returned =>
           \A p \in DOMAIN zipFiles \cup DOMAIN workFiles :
               ~Excluded(p) =>
                   Cardinality(CallbacksFor(p)) =
                       (IF p \in DOMAIN zipFiles THEN 1 ELSE 0)
                       + (IF p \in DOMAIN workFiles THEN 1 ELSE 0)

\* A run over one identical pair has returned no item after two callbacks.
C27_Witness ==
    /\ Returned
    /\ Items = <<>>
    /\ hashErr = <<>>
    /\ Len(progress) = 2
    /\ \E p \in InBoth : CallbacksFor(p) = {1, 2}

\* A pair whose hash computation failed has had its two callbacks.
C27_HashFailurePair ==
    /\ Returned
    /\ \E p \in InBoth : p \in DOMAIN hashErr /\ Cardinality(CallbacksFor(p)) = 2

(***************************************************************************)
(* More properties of ExcludeMatcher.ShouldExclude, checked under          *)
(* MatchSpec.                                                              *)
(***************************************************************************)
BinRule == ExcludeRule(<<"b", "i", "n">>, "glob", TRUE, TRUE)

\* C28: a matcher of one directory rule asked about a file path (isDir
\* false) excludes it exactly when the rule matches one of the path's
\* ancestor segments; the final segment is never tested.  The top-level file
\* bin is not excluded by the rule bin, the file bin/a is.
C28_DirRuleSkipsFileName ==
    /\ (qDone /\ ~qIsDir /\ Len(CompiledRules) = 1 /\ CompiledRules[1].rule.IsDir) =>
           LET re == CompiledRules[1].regex
           IN qResult <=>
                 /\ ~re.nil
                 /\ \E seg \in AncestorSegments(qPath) : MatchString(re, seg)
    /\ ~ShouldExclude(NewExcludeMatcher(<<BinRule>>), <<"b", "i", "n">>, FALSE)
    /\ ShouldExclude(NewExcludeMatcher(<<BinRule>>), <<"b", "i", "n", Slash, "a">>, FALSE)

\* The top-level file a under the directory rule "a".
C28_Witness ==
    /\ qDone
    /\ ~qResult
    /\ ~qIsDir
    /\ qPath = <<"a">>
    /\ Len(CompiledRules) = 1
    /\ CompiledRules[1].rule = ExcludeRule(<<"a">>, "glob", TRUE, TRUE)

\* The file b/a/a under the directory rule "a": excluded by its parent, and
\* its name matches too.
C28_AncestorMatches ==
    /\ qDone
    /\ qResult
    /\ ~qIsDir
    /\ qPath = <<"b", Slash, "a", Slash, "a">>
    /\ Len(CompiledRules) = 1
    /\ CompiledRules[1].rule = ExcludeRule(<<"a">>, "glob", TRUE, TRUE)

(***************************************************************************)
(* More properties of the Manager's rule list, checked under ConfigSpec.   *)
(***************************************************************************)
\* The configured list: the elements of m.config.ExcludeRules.
ConfiguredRules == Elements(cfgRules, defaultExcludeRules)

\* C29: after RemoveExcludeRule(i) on a list of n rules, with 0 <= i < n the
\* configured list is the previous one without its element at index i, the
\* others in their order; with i < 0 or i >= n the list is the previous one,
\* nothing was saved and no error is returned.
C29_RemoveByIndex ==
    cfgLast = "remove" =>
        LET prev == cfgCall.Prev
            i == cfgCall.Index
            n == Len(prev)
        IN IF 0 <= i /\ i < n
           THEN /\ Len(ConfiguredRules) = n - 1
                /\ \A j \in 1..(n - 1) :
                       ConfiguredRules[j] = IF j <= i THEN prev[j] ELSE prev[j + 1]
           ELSE /\ ConfiguredRules = prev
                /\ ~cfgCall.Saved
                /\ cfgCall.Err = "nil"

\* The rule in the middle of the list was removed from the default list.
C29_Witness ==
    /\ cfgLast = "remove"
    /\ cfgCall.Index = 1
    /\ cfgCall.Prev = DefaultRulesLiteral
    /\ cfgCall.Saved
    /\ Len(ConfiguredRules) = Len(DefaultRulesLiteral) - 1
    /\ ConfiguredRules[1] = DefaultRulesLiteral[1]
    /\ ConfiguredRules[2] = DefaultRulesLiteral[3]

\* A call with the index n, one past the last rule, changed nothing.
C29_OutOfRange ==
    /\ cfgLast = "remove"
    /\ cfgCall.Index = Len(cfgCall.Prev)
    /\ cfgCall.Prev # <<>>
    /\ ConfiguredRules = cfgCall.Prev
    /\ ~cfgCall.Saved

(***************************************************************************)
(* Concurrent invocations of Comparer.Compare: each invocation is a        *)
(* goroutine that runs the steps of Compare on a Comparer; the steps of    *)
(* the invocations interleave.  An invocation touches the Comparer's field *)
(* zipReader three times: the assignment of the opened reader, the defer   *)
(* statement (which evaluates the receiver of Close), and the call of      *)
(* ListFiles.  The *zip.File values of a listing read from the reader that *)
(* listed them.                                                            *)
(***************************************************************************)
Invocations == {1, 2}

NewComparerShared(p) == 1

\* NewComparer, as App.Compare calls it: a new Comparer for invocation p.
NewComparer(p) == p

\* The reader NewZipReader returns to invocation p.
NewZipReader(p) == p

ClosedReader == [state |-> "closed", closes |-> 1]

NoReader == [state |-> "none", closes |-> 0]

\* The locals of an invocation at its start.
NewCall ==
    [pc |-> "start", deferred |-> 0, listReader |-> 0, zipFiles |-> <<>>, workFiles |-> <<>>,
     zipTodo |-> {}, workTodo |-> {}, result |-> EmptyResult, ret |-> "none",
     stale |-> FALSE]

\* The deferred c.zipReader.Close() runs on the receiver d the defer statement
\* evaluated.
runDeferred(rs, d) ==
    [rs EXCEPT ![d] = [state |-> Close(@.state), closes |-> @.closes + 1]]

\* Reading an entry through reader r fails once r is closed.
readFails(rs, r) == rs[r].state = "closed"

ConcUnchanged ==
    UNCHANGED <<excludeMatcher, matchVars, compareVars, globVars, exportVars, configVars,
                textVars, appVars>>

\* c.zipReader, err = NewZipReader(c.zipPath) succeeds.
OpenArchive(p) ==
    /\ calls[p].pc = "start"
    /\ readers' = [readers EXCEPT ![NewZipReader(p)] = [state |-> "open", closes |-> 0]]
    /\ comparers' = [comparers EXCEPT ![concIn.comparerOf[p]] = NewZipReader(p)]
    /\ calls' = [calls EXCEPT ![p].pc = "opened"]
    /\ UNCHANGED concIn
    /\ ConcUnchanged

\* NewZipReader fails: the field is assigned nil, Compare returns the error.
OpenArchiveFails(p) ==
    /\ calls[p].pc = "start"
    /\ comparers' = [comparers EXCEPT ![concIn.comparerOf[p]] = 0]
    /\ calls' = [calls EXCEPT ![p].pc = "failed", ![p].ret = "err"]
    /\ UNCHANGED <<concIn, readers>>
    /\ ConcUnchanged

\* defer c.zipReader.Close(): the receiver is the field's value now.
DeferClose(p) ==
    /\ calls[p].pc = "opened"
    /\ calls' = [calls EXCEPT ![p].pc = "deferred",
                              ![p].deferred = comparers[concIn.comparerOf[p]]]
    /\ UNCHANGED <<concIn, comparers, readers>>
    /\ ConcUnchanged

\* The invocation panics on a nil receiver; its deferred Close panics too when
\* its receiver is nil, and closes the reader otherwise.
Panics(p, rs) ==
    /\ calls' = [calls EXCEPT ![p].pc = "panic", ![p].ret = "panic"]
    /\ readers' = IF calls[p].deferred = 0 THEN rs ELSE runDeferred(rs, calls[p].deferred)

\* zipFiles, err := c.zipReader.ListFiles(), through the field's value now.
ListArchive(p) ==
    /\ calls[p].pc = "deferred"
    /\ LET r == comparers[concIn.comparerOf[p]]
       IN IF r = 0 THEN Panics(p, readers)
          ELSE /\ calls' = [calls EXCEPT ![p].pc = "listed",
                                         ![p].listReader = r,
                                         ![p].zipFiles = ListFiles(concIn.archive),
                                         ![p].stale = @ \/ readers[r].state = "closed"]
               /\ UNCHANGED readers
    /\ UNCHANGED <<concIn, comparers>>
    /\ ConcUnchanged

\* The return of an invocation: its deferred Close runs.
Returns(p, pcNow, retNow, res) ==
    IF calls[p].deferred = 0 THEN Panics(p, readers)
    ELSE /\ calls' = [calls EXCEPT ![p].pc = pcNow, ![p].ret = retNow, ![p].result = res]
         /\ readers' = runDeferred(readers, calls[p].deferred)

\* getAllFilesAndDirs fails: Compare returns the error.
WalkFailsOf(p) ==
    /\ calls[p].pc = "listed"
    /\ Returns(p, "failed", "err", calls[p].result)
    /\ UNCHANGED <<concIn, comparers>>
    /\ ConcUnchanged

\* getAllFilesAndDirs succeeds: the first loop is entered.
WalkOf(p) ==
    /\ calls[p].pc = "listed"
    /\ calls' = [calls EXCEPT ![p].pc = "zipLoop",
                              ![p].workFiles = getAllFiles(WorkDir, concIn.workTree),
                              ![p].zipTodo = DOMAIN calls[p].zipFiles]
    /\ UNCHANGED <<concIn, comparers, readers>>
    /\ ConcUnchanged

\* One iteration of the first loop: getZipFileHash opens the entry through
\* the reader that listed it.
ZipIterOf(p, relPath) ==
    /\ calls[p].pc = "zipLoop"
    /\ relPath \in calls[p].zipTodo
    /\ LET c == calls[p]
           hashed == ~skipPath(concIn.matcher, relPath) /\ relPath \in DOMAIN c.workFiles
           failed == hashed /\ readFails(readers, c.listReader)
           workFilePath == c.workFiles[relPath]
           zipHash == md5Sum(concIn.archive[c.zipFiles[relPath]].Content)
           workHash == md5Sum(concIn.workTree[workFilePath])
           res == IF skipPath(concIn.matcher, relPath) THEN c.result
                  ELSE IF relPath \notin DOMAIN c.workFiles
                       THEN Emit(c.result, deletedItem(relPath))
                  ELSE IF failed THEN onHashError(c.result, relPath, workFilePath)
                  ELSE IF hashesDiffer(zipHash, workHash)
                       THEN Emit(c.result, modifiedItem(relPath, workFilePath))
                  ELSE c.result
       IN calls' = [calls EXCEPT ![p].zipTodo = @ \ {relPath},
                                 ![p].result = res,
                                 ![p].stale = @ \/ failed]
    /\ UNCHANGED <<concIn, comparers, readers>>
    /\ ConcUnchanged

ZipLoopEndOf(p) ==
    /\ calls[p].pc = "zipLoop"
    /\ calls[p].zipTodo = {}
    /\ calls' = [calls EXCEPT ![p].pc = "workLoop", ![p].workTodo = DOMAIN calls[p].workFiles]
    /\ UNCHANGED <<concIn, comparers, readers>>
    /\ ConcUnchanged

\* One iteration of the second loop.
WorkIterOf(p, relPath) ==
    /\ calls[p].pc = "workLoop"
    /\ relPath \in calls[p].workTodo
    /\ LET c == calls[p]
           res == IF skipPath(concIn.matcher, relPath) THEN c.result
                  ELSE IF ~existsInZip(c.zipFiles, ToSlash(relPath))
                       THEN Emit(c.result, addedItem(relPath, c.workFiles[relPath]))
                  ELSE c.result
       IN calls' = [calls EXCEPT ![p].workTodo = @ \ {relPath}, ![p].result = res]
    /\ UNCHANGED <<concIn, comparers, readers>>
    /\ ConcUnchanged

\* Compare returns (result, nil).
ReturnOf(p) ==
    /\ calls[p].pc = "workLoop"
    /\ calls[p].workTodo = {}
    /\ Returns(p, "done", "ok",
               [calls[p].result EXCEPT !.TotalFiles = Len(calls[p].result.Items)])
    /\ UNCHANGED <<concIn, comparers>>
    /\ ConcUnchanged

ConcNext ==
    \E p \in Invocations :
        \/ OpenArchive(p)
        \/ OpenArchiveFails(p)
        \/ DeferClose(p)
        \/ ListArchive(p)
        \/ WalkFailsOf(p)
        \/ WalkOf(p)
        \/ \E relPath \in calls[p].zipTodo : ZipIterOf(p, relPath)
        \/ ZipLoopEndOf(p)
        \/ \E relPath \in calls[p].workTodo : WorkIterOf(p, relPath)
        \/ ReturnOf(p)

\* The archives, working directories and rules of the concurrent runs.
ConcZipEntryUniverse ==
    { ZipEntry(<<"r", Slash, "a">>, FALSE, 1), ZipEntry(<<"r", Slash, "a">>, FALSE, 2),
      ZipEntry(<<"r", Slash, "b">>, FALSE, 1) }

ConcArchives == UNION {[1..k -> ConcZipEntryUniverse] : k \in 1..MaxZipEntries}

ConcWorkTrees ==
    UNION { [{Join(WorkDir, r) : r \in rels} -> {1, 2}] :
              rels \in SUBSET { <<"a">>, <<"c">> } }

ConcMatchers ==
    { NewExcludeMatcher(<<>>), NewExcludeMatcher(<<ExcludeRule(<<"c">>, "glob", FALSE, TRUE)>>) }

ConcInit(comparerOf) ==
    /\ \E archive \in ConcArchives, tree \in ConcWorkTrees, m \in ConcMatchers :
           concIn = [archive |-> archive, workTree |-> tree, matcher |-> m,
                     comparerOf |-> comparerOf]
    /\ comparers = [c \in {comparerOf[p] : p \in Invocations} |-> 0]
    /\ readers = [r \in {NewZipReader(p) : p \in Invocations} |-> NoReader]
    /\ calls = [p \in Invocations |-> NewCall]
    /\ excludeMatcher = NilMatcher
    /\ MatchIdle
    /\ CompareIdle
    /\ GlobIdle
    /\ ExportIdle
    /\ ConfigIdle
    /\ TextIdle
    /\ AppIdle

\* Two calls of App.Compare: each makes its own Comparer.
SeparateInit == ConcInit([p \in Invocations |-> NewComparer(p)])

SeparateSpec == SeparateInit /\ [][ConcNext]_vars

\* Two calls of Compare on one Comparer.
SharedInit == ConcInit([p \in Invocations |-> 1])

SharedSpec == SharedInit /\ [][ConcNext]_vars

\* What one comparison of the inputs returns when it runs alone and every
\* read succeeds: the items as a set, and the three counts.
AloneZipFiles == ListFiles(concIn.archive)

AloneWorkFiles == getAllFiles(WorkDir, concIn.workTree)

AloneItems ==
    LET kept(q) == ~shouldExclude(concIn.matcher, q, FALSE)
    IN { DiffItem(q, "deleted", <<>>) :
           q \in {k \in DOMAIN AloneZipFiles : kept(k) /\ k \notin DOMAIN AloneWorkFiles} }
       \cup { DiffItem(q, "modified", AloneWorkFiles[q]) :
           q \in {k \in DOMAIN AloneZipFiles \cap DOMAIN AloneWorkFiles :
                     /\ kept(k)
                     /\ md5Sum(concIn.archive[AloneZipFiles[k]].Content)
                            # md5Sum(concIn.workTree[AloneWorkFiles[k]])} }
       \cup { DiffItem(q, "added", AloneWorkFiles[q]) :
           q \in {k \in DOMAIN AloneWorkFiles : kept(k) /\ k \notin DOMAIN AloneZipFiles} }

AloneCount(type) == Cardinality({it \in AloneItems : it.Type = type})

ItemSetOf(p) == {calls[p].result.Items[i] : i \in 1..Len(calls[p].result.Items)}

Finished(p) == calls[p].pc \in {"done", "failed", "panic"}

\* C22: two comparisons started through App.Compare run on Comparers of
\* their own, so whatever the interleaving each one that returns a result
\* returns the items and the counts of a comparison running alone, and none
\* reads through a reader the other has closed.
C22_ConcurrentComparesIndependent ==
    \A p \in Invocations :
        /\ ~calls[p].stale
        /\ calls[p].pc # "panic"
        /\ calls[p].pc = "done" =>
               /\ ItemSetOf(p) = AloneItems
               /\ Len(calls[p].result.Items) = Cardinality(AloneItems)
               /\ calls[p].result.TotalFiles = Cardinality(AloneItems)
               /\ calls[p].result.Added = AloneCount("added")
               /\ calls[p].result.Modified = AloneCount("modified")
               /\ calls[p].result.Deleted = AloneCount("deleted")

\* The second comparison has returned a modified item after the first one
\* had returned and closed its reader.
C22_Witness ==
    /\ concIn.comparerOf[1] # concIn.comparerOf[2]
    /\ calls[1].pc = "done"
    /\ calls[2].pc = "done"
    /\ readers[1] = ClosedReader
    /\ readers[2] = ClosedReader
    /\ calls[2].result.Modified = 1
    /\ calls[1].result.Items = calls[2].result.Items

\* C30: when Compare runs concurrently on one shared Comparer, each reader
\* that was opened is closed exactly once when the invocations have ended,
\* and no invocation lists or hashes entries through a reader that is
\* already closed.
C30_SharedComparerReadersClosedOnce ==
    /\ \A r \in DOMAIN readers : readers[r].closes <= 1
    /\ \A p \in Invocations : ~calls[p].stale
    /\ (\A p \in Invocations : Finished(p)) =>
           \A r \in DOMAIN readers : readers[r].state # "none" => readers[r] = ClosedReader

\* Both invocations have opened their readers and returned results: the
\* second reader was closed twice, the first one never.
C30_ClosedTwiceAndLeaked ==
    /\ calls[1].pc = "done"
    /\ calls[2].pc = "done"
    /\ readers[1] = [state |-> "open", closes |-> 0]
    /\ readers[2] = [state |-> "closed", closes |-> 2]

\* An invocation has returned without the modified item of a comparison
\* running alone: it hashed through the reader the other one had closed.
C30_StaleReadLosesItem ==
    \E p \in Invocations :
        /\ calls[p].pc = "done"
        /\ calls[p].stale
        /\ AloneCount("modified") = 1
        /\ calls[p].result.Modified = 0

====
